---------------------------- MODULE Spec2Model ----------------------------
(***************************************************************************)
(* A model of tc.py (CIE TC1-82 computations): the reference dataset       *)
(* VisualData, the cone-fundamental and V(lambda) synthesisers, the        *)
(* landmark loop of compute_tabulated around square_sum, and the           *)
(* purple-line detection on the convex hull of each diagram.               *)
(*                                                                         *)
(* Numbers.  A numpy float is modelled as a decimal fixed-point number: an *)
(* integer count of 1/Unit.  The three non-finite floats are the values    *)
(* NaN, PosInf and NegInf, and the arithmetic below follows IEEE-754 for   *)
(* them (numpy divides by zero without raising).  Signed zeros are not     *)
(* modelled: a zero divisor counts as +0.                                  *)
(*                                                                         *)
(* Wavelengths.  The tabulated domain 390..830 nm is sampled at the five   *)
(* wavelengths of Grid; the step of Grid stands for the 1 nm step of       *)
(* np.arange(390, 831) and for the step of the data files.                 *)
(***************************************************************************)
EXTENDS Integers, Sequences, FiniteSets, TLC

\* ------------------------------------------------------------------------
\* Floats
\* ------------------------------------------------------------------------

\* Decimal places carried by a modelled float.
FloatDp == 2

RECURSIVE Pow10(_)
Pow10(n) == IF n <= 0 THEN 1 ELSE 10 * Pow10(n - 1)

\* 1.0 as a modelled float.
Unit == Pow10(FloatDp)

NaN == 2000000001
PosInf == 2000000000
NegInf == -2000000000

IsFinite(x) == x \notin {NaN, PosInf, NegInf}

IsInf(x) == x \in {PosInf, NegInf}

IAbs(k) == IF k < 0 THEN -k ELSE k

ISign(k) == IF k < 0 THEN -1 ELSE IF k > 0 THEN 1 ELSE 0

\* The integer nearest to n/d (d # 0), halves away from zero.
RoundDiv(n, d) ==
    LET q == IAbs(n) \div IAbs(d)
        r == IAbs(n) % IAbs(d)
    IN  ISign(n) * ISign(d) * (q + (IF 2 * r >= IAbs(d) THEN 1 ELSE 0))

\* np.sign
Sign(x) == IF x = NaN THEN NaN ELSE IF x = PosInf THEN Unit
           ELSE IF x = NegInf THEN -Unit ELSE ISign(x) * Unit

\* np.absolute
Absolute(x) == IF x = NaN THEN NaN ELSE IF IsInf(x) THEN PosInf ELSE IAbs(x)

Neg(x) == IF x = NaN THEN NaN ELSE IF x = PosInf THEN NegInf
          ELSE IF x = NegInf THEN PosInf ELSE -x

InfOfSign(s) == IF s < 0 THEN NegInf ELSE PosInf

SignOf(x) == IF x = PosInf THEN 1 ELSE IF x = NegInf THEN -1 ELSE ISign(x)

\* a + b
Add(a, b) ==
    IF a = NaN \/ b = NaN THEN NaN
    ELSE IF IsInf(a) /\ IsInf(b) THEN (IF a = b THEN a ELSE NaN)
    ELSE IF IsInf(a) THEN a
    ELSE IF IsInf(b) THEN b
    ELSE a + b

Sub(a, b) == Add(a, Neg(b))

\* a * b
Mul(a, b) ==
    IF a = NaN \/ b = NaN THEN NaN
    ELSE IF IsInf(a) \/ IsInf(b)
         THEN (IF a = 0 \/ b = 0 THEN NaN ELSE InfOfSign(SignOf(a) * SignOf(b)))
    ELSE RoundDiv(a * b, Unit)

\* a / b: numpy's array division, which returns nan or inf for a zero divisor.
Div(a, b) ==
    IF a = NaN \/ b = NaN THEN NaN
    ELSE IF IsInf(a) THEN (IF IsInf(b) THEN NaN
                           ELSE InfOfSign(SignOf(a) * (IF b < 0 THEN -1 ELSE 1)))
    ELSE IF IsInf(b) THEN 0
    ELSE IF b = 0 THEN (IF a = 0 THEN NaN ELSE InfOfSign(a))
    ELSE RoundDiv(a * Unit, b)

\* a < b on floats: false as soon as one side is nan.
Lt(a, b) ==
    IF a = NaN \/ b = NaN THEN FALSE
    ELSE IF a = b THEN FALSE
    ELSE IF a = NegInf \/ b = PosInf THEN TRUE
    ELSE IF a = PosInf \/ b = NegInf THEN FALSE
    ELSE a < b

\* The float of an integer k.
F(k) == k * Unit

\* my_round(x, n): round half away from zero to n decimal places,
\* s*floor(|x|*10^n + 0.5)/10^n.
my_round(x, n) ==
    IF x = NaN THEN NaN
    ELSE IF IsInf(x) THEN x
    ELSE IF n >= FloatDp THEN x
    ELSE LET q == Pow10(FloatDp - n)
         IN  ISign(x) * ((2 * IAbs(x) + q) \div (2 * q)) * q

\* ceil(log10(|x|)) for a finite x # 0, counted from the model's smallest
\* positive float: the least e with |x| <= 10^e / Unit ... returned as the
\* number of digits d with |x| <= 10^d in units of 1/Unit.
RECURSIVE DigitsOf(_, _)
DigitsOf(a, d) == IF a <= Pow10(d) THEN d ELSE DigitsOf(a, d + 1)

\* significant_figures(x, n), array branch: 10^b * my_round(x / 10^b, n) with
\* b = ceil(log10(|x|)), b = 0 for x = 0.
significant_figures(x, n) ==
    IF x = NaN THEN NaN
    ELSE IF IsInf(x) THEN NaN          \* b = inf, x / 10^b = inf / inf
    ELSE IF x = 0 THEN 0
    ELSE LET d == DigitsOf(IAbs(x), 0)  \* |x| <= 10^d units, b = d - FloatDp
         IN  IF d <= n THEN x
             ELSE LET q == Pow10(d - n)
                  IN  ISign(x) * ((2 * IAbs(x) + q) \div (2 * q)) * q

\* significant_figures(x, n) for x of type float or int (lines 65-70): the
\* same without abs(), so that log10 of a negative x is nan, and so are b,
\* 10**b and the product.
significant_figures_scalar(x, n) ==
    IF x = NaN THEN NaN
    ELSE IF IsInf(x) THEN NaN
    ELSE IF x = 0 THEN 0
    ELSE IF x < 0 THEN NaN
    ELSE significant_figures(x, n)

\* ------------------------------------------------------------------------
\* float64 in small, for the rounding of my_round
\* ------------------------------------------------------------------------

\* A float has Mantissa bits of precision; its value is counted in units of
\* 2^-Frac.  Below 2^Mantissa units every count is a float.
Mantissa == 4

Frac == 5

RECURSIVE Pow2(_)
Pow2(n) == IF n <= 0 THEN 1 ELSE 2 * Pow2(n - 1)

\* 1.0
One == Pow2(Frac)

\* The spacing of the floats at t units.
RECURSIVE Granule(_)
Granule(t) == IF t < Pow2(Mantissa) THEN 1 ELSE 2 * Granule(t \div 2)

\* The float nearest to p/q units (p >= 0, q > 0), a tie to the even mantissa:
\* the result of one IEEE operation whose exact value is p/q.
Nearest(p, q) ==
    LET g == Granule(p \div q)
        k == p \div (q * g)
        r == p - k * q * g
    IN  IF 2 * r < q * g THEN k * g
        ELSE IF 2 * r > q * g THEN (k + 1) * g
        ELSE IF k % 2 = 0 THEN k * g ELSE (k + 1) * g

\* The floats up to MaxDouble in magnitude.
MaxDouble == 4

Doubles ==
    { x \in (-(MaxDouble * One))..(MaxDouble * One) : Nearest(IAbs(x), 1) = IAbs(x) }

\* my_round(x, n) as float64 computes it: s*np.floor(np.absolute(x)*10**n + 0.5)/10**n,
\* every operation rounded to the nearest float.
my_round_float64(x, n) ==
    LET scaled == Nearest(IAbs(x) * Pow10(n), 1)
        shifted == Nearest(2 * scaled + One, 2)
        floor == shifted \div One
    IN  ISign(x) * Nearest(floor * One, Pow10(n))

\* ------------------------------------------------------------------------
\* Sequences of floats and tables
\* ------------------------------------------------------------------------

\* A table is a sequence of rows <<wavelength, v1, ..., vk>>; numpy's column c
\* is component c + 1 of a row.  Wavelengths are integers (nm).
\* An ndarray holds its elements: the sequence is built once, when the array
\* is made, and a subscript reads it.
AsArray(s) == s \o <<>>

Col(t, c) == AsArray([i \in 1..Len(t) |-> t[i][c + 1]])

RECURSIVE SumSeq(_)
SumSeq(s) == IF Len(s) = 0 THEN 0 ELSE Add(Head(s), SumSeq(Tail(s)))

\* ndarray.max(): nan as soon as one element is nan.
RECURSIVE MaxSeq(_)
MaxSeq(s) ==
    IF Len(s) = 1 THEN s[1]
    ELSE LET m == MaxSeq(Tail(s))
         IN  IF s[1] = NaN \/ m = NaN THEN NaN
             ELSE IF Lt(s[1], m) THEN m ELSE s[1]

RECURSIVE MinSeq(_)
MinSeq(s) ==
    IF Len(s) = 1 THEN s[1]
    ELSE LET m == MinSeq(Tail(s))
         IN  IF s[1] = NaN \/ m = NaN THEN NaN
             ELSE IF Lt(m, s[1]) THEN m ELSE s[1]

\* np.argmin: the first index of a nan if there is one, else the first index
\* of the least element (1-based here).
ArgMin(s) ==
    IF \E i \in 1..Len(s) : s[i] = NaN
    THEN CHOOSE i \in 1..Len(s) : s[i] = NaN /\ \A j \in 1..(i - 1) : s[j] # NaN
    ELSE CHOOSE i \in 1..Len(s) :
             /\ \A j \in 1..Len(s) : ~Lt(s[j], s[i])
             /\ \A j \in 1..(i - 1) : Lt(s[i], s[j])

\* np.argmax, likewise.
ArgMax(s) ==
    IF \E i \in 1..Len(s) : s[i] = NaN
    THEN CHOOSE i \in 1..Len(s) : s[i] = NaN /\ \A j \in 1..(i - 1) : s[j] # NaN
    ELSE CHOOSE i \in 1..Len(s) :
             /\ \A j \in 1..Len(s) : ~Lt(s[i], s[j])
             /\ \A j \in 1..(i - 1) : Lt(s[j], s[i])

\* The tabulated domain: np.arange(390, 831), sampled every Step1nm.
LambdaStart == 390
LambdaEnd == 830
Step1nm == 110

RECURSIVE Arange(_, _, _)
Arange(start, stop, step) ==
    IF start >= stop THEN <<>> ELSE <<start>> \o Arange(start + step, stop, step)

Grid == Arange(LambdaStart, LambdaEnd + 1, Step1nm)

\* scipy.interpolate.InterpolatedUnivariateSpline(t[:,0], t[:,c]) evaluated at
\* wavelength w: the tabulated value at a knot; between knots and beyond the
\* last (first) knot the model interpolates (extrapolates) linearly.
Spline(t, c, w) ==
    IF \E i \in 1..Len(t) : t[i][1] = w
    THEN (LET i == CHOOSE i \in 1..Len(t) : t[i][1] = w IN t[i][c + 1])
    ELSE LET n == Len(t)
             k == IF w < t[1][1] THEN 1
                  ELSE IF w > t[n][1] THEN n - 1
                  ELSE CHOOSE j \in 1..(n - 1) : t[j][1] < w /\ w < t[j + 1][1]
             x0 == t[k][1]
             x1 == t[k + 1][1]
             y0 == t[k][c + 1]
             y1 == t[k + 1][c + 1]
         IN  IF ~IsFinite(y0) \/ ~IsFinite(y1) THEN NaN
             ELSE y0 + RoundDiv((y1 - y0) * (w - x0), x1 - x0)

SplineAt(t, c, ws) == AsArray([i \in 1..Len(ws) |-> Spline(t, c, ws[i])])

\* Linear interpolation through the points (xs[i], ys[i]), xs increasing,
\* at x inside [xs[1], xs[Len(xs)]] (scipy.interpolate.interp1d; its cubic
\* kind is modelled by the same broken line, exact at the knots).
Interp1d(xs, ys, x) ==
    IF \E i \in 1..Len(xs) : xs[i] = x
    THEN (LET i == CHOOSE i \in 1..Len(xs) : xs[i] = x IN ys[i])
    ELSE LET k == CHOOSE j \in 1..(Len(xs) - 1) : xs[j] < x /\ x < xs[j + 1]
         IN  IF ~IsFinite(ys[k]) \/ ~IsFinite(ys[k + 1]) THEN NaN
             ELSE ys[k] + RoundDiv((ys[k + 1] - ys[k]) * (x - xs[k]),
                                   xs[k + 1] - xs[k])

\* np.exp and 10**x on the model's floats: broken lines through the knots below
\* (x, f(x)), 0 below the first knot (underflow; 10**-inf = 0).
ExpKnots ==
    << <<-800, 0>>, <<-400, 2>>, <<-200, 14>>, <<-150, 22>>, <<-100, 37>>,
       <<-75, 47>>, <<-50, 61>>, <<-25, 78>>, <<0, 100>>, <<25, 128>>,
       <<50, 165>>, <<100, 272>> >>

Exp10Knots ==
    << <<-300, 0>>, <<-200, 1>>, <<-150, 3>>, <<-100, 10>>, <<-70, 20>>,
       <<-50, 32>>, <<-30, 50>>, <<-15, 71>>, <<0, 100>>, <<30, 200>>,
       <<50, 316>>, <<100, 1000>> >>

Curve(knots, x) ==
    IF x = NaN THEN NaN
    ELSE IF x = NegInf THEN 0
    ELSE IF x = PosInf THEN PosInf
    ELSE IF x <= knots[1][1] THEN 0
    ELSE IF x >= knots[Len(knots)][1] THEN knots[Len(knots)][2]
    ELSE Interp1d(AsArray([i \in 1..Len(knots) |-> knots[i][1]]),
                  AsArray([i \in 1..Len(knots) |-> knots[i][2]]), x)

Exp(x) == Curve(ExpKnots, x)

Exp10(x) == Curve(Exp10Knots, x)

\* ------------------------------------------------------------------------
\* Arrays as objects: a reference either names an attribute of VisualData
\* (it shares the dataset's storage) or holds an array of its own.
\* ------------------------------------------------------------------------

DatasetRef(name) == [alias |-> name, val |-> <<>>]

Fresh(t) == [alias |-> "", val |-> t]

Deref(vd, r) == IF r.alias # "" THEN vd[r.alias] ELSE r.val

\* An assignment without .copy(): the new name shares the storage.
NoCopy(vd, r) == r

\* ndarray.copy()
copy(vd, r) == Fresh(Deref(vd, r))

SetCol(t, c, vals) == AsArray([i \in 1..Len(t) |-> [t[i] EXCEPT ![c + 1] = vals[i]]])

\* r[:,c] = vals, in place: the dataset changes when r shares its storage.
Store(vd, r, c, vals) ==
    IF r.alias # ""
    THEN [vd |-> [vd EXCEPT ![r.alias] = SetCol(vd[r.alias], c, vals)], out |-> r]
    ELSE [vd |-> vd, out |-> Fresh(SetCol(r.val, c, vals))]

\* ------------------------------------------------------------------------
\* VisualData: the tabulated and derived visual data
\* ------------------------------------------------------------------------

\* The wavelengths of the CIE 1931/1964 tables, np.arange(360., 831.); the
\* first RefSkip rows lie below 390 nm (cc_ref[30:]).
RefStart == 360
RefGrid == <<RefStart>> \o Grid
RefSkip == 1

\* x / s for every value column of a table.
DivCols(t, s) ==
    AsArray([i \in 1..Len(t) |->
        AsArray([c \in 1..Len(t[i]) |-> IF c = 1 THEN t[i][1] ELSE Div(t[i][c], s[i])])])

RowSums(t) ==
    AsArray([i \in 1..Len(t) |-> SumSeq(AsArray([c \in 1..(Len(t[i]) - 1) |-> t[i][c + 1]]))])

\* chromaticities_from_XYZ, for one of the two standards: the chromaticities
\* and the knots [first, argmin x, argmax y, 700, last].
Chromaticities(xyz) == DivCols(xyz, RowSums(xyz))

KneeWavelength == 700

Knots(cc) ==
    << cc[1][1], cc[ArgMin(Col(cc, 1))][1], cc[ArgMax(Col(cc, 2))][1],
       KneeWavelength, cc[Len(cc)][1] >>

\* The value at 390 nm of the Gaussian that docul_fine fits to docul2.
DoculFit390 == 20

\* docul_fine: docul2 padded (the fitted Gaussian below, zeros above) and
\* resampled on the wavelengths of ocular_sum_32; docul1 is the rest.
Docul2Fine(ocular_sum_32, docul2) ==
    LET ext == << <<LambdaStart, DoculFit390>> >> \o docul2
               \o AsArray([i \in 1..3 |-> <<Grid[i + 2], 0>>])
    IN  SetCol(ocular_sum_32, 1,
               AsArray([i \in 1..Len(ocular_sum_32) |-> Spline(ext, 1, ocular_sum_32[i][1])]))

Docul1Fine(ocular_sum_32, docul2) ==
    LET d2 == Docul2Fine(ocular_sum_32, docul2)
    IN  SetCol(ocular_sum_32, 1,
               AsArray([i \in 1..Len(ocular_sum_32) |-> Sub(ocular_sum_32[i][2], d2[i][2])]))

\* A table on Grid from its value columns.
OnGrid(g, cols) ==
    AsArray([i \in 1..Len(g) |-> <<g[i]>> \o AsArray([c \in 1..Len(cols) |-> cols[c][i]])])

\* The files of the 'data' folder.  Two datasets are modelled: they differ in
\* the tabulated cone fundamentals and absorbances.
Files(d) ==
    [ absorbance |->
        IF d = 1
        THEN OnGrid(Grid, << <<-100, -30, 0, -50, -100>>,
                             <<-80, 0, -30, -70, -100>>,
                             <<0, -30, -100, NegInf, NegInf>> >>)
        ELSE OnGrid(Grid, << <<-150, -30, 0, -100, -200>>,
                             <<-100, 0, -70, -150, NegInf>>,
                             <<0, -30, -200, NegInf, NegInf>> >>),
      ocular_sum_32 |-> OnGrid(Grid, << <<60, 10, 2, 0, 0>> >>),
      macula |-> OnGrid(Grid, << <<5, 20, 0, 0, 0>> >>),
      docul2 |-> << <<500, 5>> >>,
      lms2_lin_energ |->
        IF d = 1
        THEN OnGrid(Grid, << <<5, 40, 100, 30, 5>>, <<6, 100, 50, 10, 2>>,
                             <<60, 100, 5, 0, 0>> >>)
        ELSE OnGrid(Grid, << <<2, 30, 100, 20, 0>>, <<3, 100, 40, 5, 0>>,
                             <<100, 40, 2, 0, 0>> >>),
      lms10_lin_energ |->
        IF d = 1
        THEN OnGrid(Grid, << <<6, 45, 100, 28, 4>>, <<8, 100, 55, 9, 2>>,
                             <<70, 100, 4, 0, 0>> >>)
        ELSE OnGrid(Grid, << <<3, 35, 100, 18, 0>>, <<4, 100, 45, 4, 0>>,
                             <<100, 50, 2, 0, 0>> >>),
      vlambdaLM_2_lin_energ |->
        IF d = 1 THEN OnGrid(Grid, << <<6, 62, 86, 24, 4>> >>)
        ELSE OnGrid(Grid, << <<2, 56, 83, 16, 0>> >>),
      vlambdaLM_10_lin_energ |->
        IF d = 1 THEN OnGrid(Grid, << <<7, 66, 88, 22, 3>> >>)
        ELSE OnGrid(Grid, << <<3, 59, 85, 14, 0>> >>),
      vlambdaLM_2_log_quant |-> OnGrid(Grid, << <<-120, -20, -7, -70, -150>> >>),
      vlambdaLM_10_log_quant |-> OnGrid(Grid, << <<-110, -18, -6, -72, -160>> >>),
      xyz31 |-> OnGrid(RefGrid, << <<2, 4, 1, 45, 70, 70>>, <<0, 0, 20, 55, 30, 30>>,
                                   <<9, 20, 25, 0, 0, 0>> >>),
      xyz64 |-> OnGrid(RefGrid, << <<2, 1, 4, 40, 72, 72>>, <<0, 1, 25, 60, 28, 28>>,
                                   <<8, 22, 22, 0, 0, 0>> >>) ]

Datasets == {1, 2}

\* The lms tables rounded to lms_signfig = 6 figures are files of their own.
\* The class body of VisualData: the files and what is derived from them.
LoadVisualData(d) ==
    LET f == Files(d)
    IN  [ absorbance |-> f.absorbance,
          ocular_sum_32 |-> f.ocular_sum_32,
          macula |-> f.macula,
          lms10_lin_energ |-> f.lms10_lin_energ,
          lms10_lin_energ_n_signfig |-> f.lms10_lin_energ,
          lms2_lin_energ |-> f.lms2_lin_energ,
          lms2_lin_energ_n_signfig |-> f.lms2_lin_energ,
          vlambdaLM_10_lin_energ |-> f.vlambdaLM_10_lin_energ,
          vlambdaLM_2_lin_energ |-> f.vlambdaLM_2_lin_energ,
          vlambdaLM_10_log_quant |-> f.vlambdaLM_10_log_quant,
          vlambdaLM_2_log_quant |-> f.vlambdaLM_2_log_quant,
          xyz31 |-> f.xyz31,
          xyz64 |-> f.xyz64,
          docul2 |-> f.docul2,
          cc31 |-> Chromaticities(f.xyz31),
          cc64 |-> Chromaticities(f.xyz64),
          cc31knots |-> Knots(Chromaticities(f.xyz31)),
          cc64knots |-> Knots(Chromaticities(f.xyz64)),
          docul1_fine |-> Docul1Fine(f.ocular_sum_32, f.docul2),
          docul2_fine |-> Docul2Fine(f.ocular_sum_32, f.docul2) ]

\* ------------------------------------------------------------------------
\* Functions of age and field size.  Each returns the dataset as the call
\* leaves it (vd) next to what it returns (out, a reference).
\* ------------------------------------------------------------------------

\* significant_figures / my_round of a whole array, wavelength column included.
SigFigNm(w, n) ==
    IF w = 0 THEN 0
    ELSE LET d == DigitsOf(IAbs(w), 0)
         IN  IF d <= n THEN w
             ELSE ISign(w) * RoundDiv(IAbs(w), Pow10(d - n)) * Pow10(d - n)

SigFigTable(t, n) ==
    AsArray([i \in 1..Len(t) |->
        AsArray([c \in 1..Len(t[i]) |-> IF c = 1 THEN SigFigNm(t[i][1], n)
                                ELSE significant_figures(t[i][c], n)])])

RoundTable(t, n) ==
    AsArray([i \in 1..Len(t) |->
        AsArray([c \in 1..Len(t[i]) |-> IF c = 1 THEN t[i][1] ELSE my_round(t[i][c], n)])])

d_mac_max(field_size) == my_round(Mul(49, Exp(Div(F(-field_size), 613))), 3)

d_LM_max(field_size) ==
    my_round(Add(38, Mul(54, Exp(Div(F(-field_size), 133)))), 3)

d_S_max(field_size) ==
    my_round(Add(30, Mul(45, Exp(Div(F(-field_size), 133)))), 3)

\* 1 + 0.02*(age - 32)
ocular_below_60(age) == Add(Unit, Mul(2, F(age - 32)))

\* 1.56 + 0.0667*(age - 60)
ocular_from_60(age) == Add(156, Mul(7, F(age - 60)))

\* The coefficient with 1.65 written for 1.56.
ocular_coefficient_slip(age) ==
    IF age < 60 THEN ocular_below_60(age) ELSE Add(165, Mul(7, F(age - 60)))

\* The coefficient of docul1_fine, lines 364-369.
ocular_coefficient(age) ==
    IF age < 60 THEN ocular_below_60(age) ELSE ocular_from_60(age)

ocular(vd, age) ==
    LET ocul == copy(vd, DatasetRef("docul2_fine"))
        coef == ocular_coefficient(age)
    IN  Store(vd, ocul, 1,
              AsArray([i \in 1..Len(vd.docul1_fine) |->
                  Add(Mul(coef, vd.docul1_fine[i][2]), vd.docul2_fine[i][2])]))

Absorptance(d, a) == Sub(Unit, Exp10(Mul(Neg(d), Exp10(a))))

\* abt[:,1], abt[:,2], abt[:,3] in turn, each from the dataset as the
\* assignments before it left it.
absorpt(vd, field_size) ==
    LET n == Len(vd.absorbance)
        Third(s2) ==
            Store(s2.vd, s2.out, 3,
                AsArray([i \in 1..n |->
                    Absorptance(d_S_max(field_size), s2.vd.absorbance[i][4])]))
        Second(s1) ==
            Third(Store(s1.vd, s1.out, 2,
                AsArray([i \in 1..n |->
                    Absorptance(d_LM_max(field_size), s1.vd.absorbance[i][3])])))
    IN  Second(Store(vd, copy(vd, DatasetRef("absorbance")), 1,
                AsArray([i \in 1..n |->
                    Absorptance(d_LM_max(field_size), vd.absorbance[i][2])])))

\* The column left as it is.
Unnormalised(vd, r, c) == [vd |-> vd, out |-> r]

\* x[:,c] = x[:,c] / x[:,c].max()
Normalise(vd, r, c) ==
    LET Scaled(col, max) ==
            Store(vd, r, c, AsArray([k \in 1..Len(col) |-> Div(col[k], max)]))
        Of(col) == Scaled(col, MaxSeq(col))
    IN  Of(Col(Deref(vd, r), c))

RECURSIVE QuantalChannels(_, _, _, _, _, _)
QuantalChannels(vd, lmsq, abt, ocul, field_size, i) ==
    IF i > 3 THEN [vd |-> vd, out |-> lmsq]
    ELSE LET Rest(s2) == QuantalChannels(s2.vd, s2.out, abt, ocul, field_size, i + 1)
             Scaled(s1) == Rest(Normalise(s1.vd, s1.out, i))
             Channel(A, O) ==
                 Scaled(Store(vd, lmsq, i,
                     AsArray([k \in 1..Len(A) |->
                         Mul(A[k][i + 1],
                             Exp10(Sub(Div(Mul(Neg(d_mac_max(field_size)),
                                               vd.macula[k][2]), 35),
                                       O[k][2])))])))
         IN  Channel(Deref(vd, abt), Deref(vd, ocul))

lms_quantal(vd, field_size, age) ==
    LET Channels(a, o) ==
            QuantalChannels(o.vd, copy(a.vd, a.out), a.out, o.out, field_size, 1)
        WithOcular(a) == Channels(a, ocular(a.vd, age))
    IN  WithOcular(absorpt(vd, field_size))

\* The dummy max value returned with a literature table.
DummyMax == <<0>>

\* lms[:,i] = lms[:,i]*lms[:,0]; lms_max.append(max); lms[:,i] = lms[:,i]/max
RECURSIVE EnergyChannels(_, _, _, _)
EnergyChannels(vd, lms, lms_max, i) ==
    IF i > 3 THEN [vd |-> vd, out |-> lms, lms_max |-> lms_max]
    ELSE LET Rest(s2, m) == EnergyChannels(s2.vd, s2.out, Append(lms_max, m), i + 1)
             Scaled(s1) ==
                 Rest(Normalise(s1.vd, s1.out, i),
                      MaxSeq(Col(Deref(s1.vd, s1.out), i)))
             Channel(t) ==
                 Scaled(Store(vd, lms, i,
                     AsArray([k \in 1..Len(t) |->
                         IF IsFinite(t[k][i + 1]) THEN t[k][i + 1] * t[k][1]
                         ELSE t[k][i + 1]])))
         IN  Channel(Deref(vd, lms))

\* The synthesis of lms_energy_base: lines 487-494.
Synthesised(vd, field_size, age) ==
    LET Rounded(e) ==
            [vd |-> e.vd, out |-> Fresh(SigFigTable(Deref(e.vd, e.out), 9)),
             lms_max |-> e.lms_max]
        Energy(q) == Rounded(EnergyChannels(q.vd, q.out, <<>>, 1))
    IN  Energy(lms_quantal(vd, field_size, age))

\* lms_energy_base without the test of the reference conditions.
lms_energy_base_synthesised(vd, field_size, age) == Synthesised(vd, field_size, age)

\* lms_energy_base returning the tables of the reference conditions themselves.
lms_energy_base_shared(vd, field_size, age) ==
    IF age = 32 /\ field_size = 2
    THEN [vd |-> vd, out |-> DatasetRef("lms2_lin_energ"), lms_max |-> DummyMax]
    ELSE IF age = 32 /\ field_size = 10
    THEN [vd |-> vd, out |-> DatasetRef("lms10_lin_energ"), lms_max |-> DummyMax]
    ELSE Synthesised(vd, field_size, age)

lms_energy_base(vd, field_size, age) ==
    IF age = 32 /\ field_size = 2
    THEN [vd |-> vd, out |-> copy(vd, DatasetRef("lms2_lin_energ")),
          lms_max |-> DummyMax]
    ELSE IF age = 32 /\ field_size = 10
    THEN [vd |-> vd, out |-> copy(vd, DatasetRef("lms10_lin_energ")),
          lms_max |-> DummyMax]
    ELSE Synthesised(vd, field_size, age)

lms_energy(vd, field_size, age, signfig) ==
    IF signfig = 6 /\ age = 32 /\ field_size = 2
    THEN [vd |-> vd, out |-> copy(vd, DatasetRef("lms2_lin_energ_n_signfig")),
          lms_max |-> DummyMax]
    ELSE IF signfig = 6 /\ age = 32 /\ field_size = 10
    THEN [vd |-> vd, out |-> copy(vd, DatasetRef("lms10_lin_energ_n_signfig")),
          lms_max |-> DummyMax]
    ELSE LET Rounded(b, r) ==
                 [vd |-> b.vd,
                  out |-> Fresh(SigFigTable(Deref(b.vd, r.out), signfig)),
                  lms_max |-> r.lms_max]
             Chosen(b) ==
                 Rounded(b,
                     IF signfig < 6 /\ age = 32 /\ field_size = 2
                     THEN [out |-> copy(b.vd, DatasetRef("lms2_lin_energ_n_signfig")),
                           lms_max |-> DummyMax]
                     ELSE IF signfig < 6 /\ age = 32 /\ field_size = 10
                     THEN [out |-> copy(b.vd, DatasetRef("lms10_lin_energ_n_signfig")),
                           lms_max |-> DummyMax]
                     ELSE [out |-> b.out, lms_max |-> b.lms_max])
         IN  Chosen(lms_energy_base(vd, field_size, age))

v_lambda_quantal(vd, field_size, age) ==
    LET Weighted(q, lms) ==
            Normalise(q.vd,
                Fresh(AsArray([i \in 1..Len(lms) |->
                    <<lms[i][1], Add(Mul(189, lms[i][2]), lms[i][3])>>])),
                1)
        Of(q) == Weighted(q, Deref(q.vd, q.out))
    IN  Of(lms_quantal(vd, field_size, age))

v_lambda_energy_from_quantal(vd, field_size, age) ==
    IF age = 32 /\ field_size = 2
    THEN [vd |-> vd, out |-> copy(vd, DatasetRef("vlambdaLM_2_log_quant"))]
    ELSE IF age = 32 /\ field_size = 10
    THEN [vd |-> vd, out |-> copy(vd, DatasetRef("vlambdaLM_10_log_quant"))]
    ELSE LET Scaled(s1) == Normalise(s1.vd, s1.out, 1)
             Energy(q, t) ==
                 Scaled(Store(q.vd, q.out, 1,
                     AsArray([k \in 1..Len(t) |->
                         IF IsFinite(t[k][2]) THEN t[k][2] * t[k][1] ELSE t[k][2]])))
             Of(q) == Energy(q, Deref(q.vd, q.out))
         IN  Of(v_lambda_quantal(vd, field_size, age))

\* The literature weights (a21, a22) of the reference condition.
A21_2 == 69
A22_2 == 35
A21_10 == 69
A22_10 == 35

v_lambda_energy_from_lms(vd, field_size, age, v_lambda_signfig, mat_dp) ==
    IF age = 32 /\ field_size = 2
    THEN [vd |-> vd, out |-> copy(vd, DatasetRef("vlambdaLM_2_lin_energ")),
          weights |-> <<A21_2, A22_2>>]
    ELSE IF age = 32 /\ field_size = 10
    THEN [vd |-> vd, out |-> copy(vd, DatasetRef("vlambdaLM_10_lin_energ")),
          weights |-> <<A21_10, A22_10>>]
    ELSE LET Result(b, lms, a21, a22) ==
                 [vd |-> b.vd,
                  out |-> Fresh(AsArray([i \in 1..Len(lms) |->
                      <<lms[i][1],
                        significant_figures(Add(Mul(a21, lms[i][2]),
                                                Mul(a22, lms[i][3])),
                                            v_lambda_signfig)>>])),
                  weights |-> <<a21, a22>>]
             Weights(b, lms, m) ==
                 Result(b, lms,
                        my_round(Div(Mul(189, b.lms_max[1]), m), mat_dp),
                        my_round(Div(b.lms_max[2], m), mat_dp))
             Sum(b, lms) ==
                 Weights(b, lms,
                     MaxSeq(AsArray([i \in 1..Len(lms) |->
                         Add(Mul(Mul(189, b.lms_max[1]), lms[i][2]),
                             Mul(b.lms_max[2], lms[i][3]))])))
             Of(b) == Sum(b, Deref(b.vd, b.out))
         IN  Of(lms_energy_base(vd, field_size, age))

\* The 1931 locus whatever the field size.
chromaticity_of_1931(vd, field_size) == [vd |-> vd, out |-> Fresh(vd.cc31)]

\* chromaticity_interpolated: the reference locus on RefGrid.
chromaticity_interpolated(vd, field_size) ==
    LET alpha == Div(F(field_size - 2), F(8))
        n == Len(vd.cc31knots)
        blend == AsArray([i \in 1..n |->
                     Add(Mul(Sub(Unit, alpha), F(vd.cc31knots[i])),
                         Mul(alpha, F(vd.cc64knots[i])))])
        knots == AsArray([i \in 1..n |-> IF i = 1 THEN F(RefStart)
                                 ELSE IF i = n THEN F(LambdaEnd) ELSE blend[i]])
        k31 == AsArray([i \in 1..n |-> F(vd.cc31knots[i])])
        k64 == AsArray([i \in 1..n |-> F(vd.cc64knots[i])])
        w31 == AsArray([i \in 1..Len(vd.cc31) |-> F(vd.cc31[i][1])])
        w64 == AsArray([i \in 1..Len(vd.cc64) |-> F(vd.cc64[i][1])])
        row(lam) ==
            LET lambda31 == Interp1d(knots, k31, F(lam))
                lambda64 == Interp1d(knots, k64, F(lam))
                x == Add(Mul(Sub(Unit, alpha), Interp1d(w31, Col(vd.cc31, 1), lambda31)),
                         Mul(alpha, Interp1d(w64, Col(vd.cc64, 1), lambda64)))
                y == Add(Mul(Sub(Unit, alpha), Interp1d(w31, Col(vd.cc31, 2), lambda31)),
                         Mul(alpha, Interp1d(w64, Col(vd.cc64, 2), lambda64)))
            IN  <<lam, x, y, Sub(Sub(Unit, x), y)>>
    IN  [vd |-> vd, out |-> Fresh(AsArray([i \in 1..Len(RefGrid) |-> row(RefGrid[i])]))]

\* ------------------------------------------------------------------------
\* square_sum and the minimiser
\* ------------------------------------------------------------------------

\* l_spline, m_spline, s_spline (or the standard ones) at the wavelengths ws:
\* rows <<l, m, s>>.
Resample(t, ws) ==
    AsArray([i \in 1..Len(ws) |-> <<Spline(t, 1, ws[i]), Spline(t, 2, ws[i]), Spline(t, 3, ws[i])>>])

\* np.concatenate((lambdas.reshape(...), x)).T: the wavelength column first.
\* The landmark the loop starts from.
LandmarkInit == 500

SqDiff(a, b) == LET d == Sub(a, b) IN Mul(d, d)

\* Chromaticity coordinates of tristimulus rows: each of x, y, z divided by
\* x + y + z (no test of the sum).
ChromaticityOf(xyz) ==
    AsArray([i \in 1..Len(xyz) |->
        LET sum == Add(Add(xyz[i][1], xyz[i][2]), xyz[i][3])
        IN  <<Div(xyz[i][1], sum), Div(xyz[i][2], sum), Div(xyz[i][3], sum)>>])

\* np.dot(trans_mat, lms), then significant_figures(., xyz_signfig); lms is a
\* sequence of rows <<l, m, s>>.
Tristimulus(trans_mat, lms, xyz_signfig) ==
    AsArray([i \in 1..Len(lms) |->
        AsArray([r \in 1..3 |->
            significant_figures(
                Add(Add(Mul(trans_mat[r][1], lms[i][1]),
                        Mul(trans_mat[r][2], lms[i][2])),
                    Mul(trans_mat[r][3], lms[i][3])),
                xyz_signfig)])])

\* The first row of the matrix of square_sum for a candidate a13 and a
\* landmark.  fr holds the arguments the loop passes unchanged: the weights,
\* the tables behind the splines, the wavelengths, the reference locus and the
\* precisions.
FirstRow(a13, fr, lambda_ref_min) ==
    LET Row(x_ref_min, lr, mr, sr, SL, SM, SS, SV) ==
            LET xm1 == Add(-Unit, x_ref_min)
                den == Mul(Sub(Mul(mr, SL), Mul(lr, SM)), xm1)
                n11 == Add(Add(Add(Mul(Neg(mr), SV),
                                   Mul(Mul(a13, Sub(Mul(sr, SM), Mul(mr, SS))), xm1)),
                               Mul(Mul(Add(Mul(fr.a21, lr), Mul(fr.a33, sr)), SM), x_ref_min)),
                           Mul(Mul(mr, Add(Mul(fr.a22, SM), SV)), x_ref_min))
                n12 == Sub(Sub(Mul(lr, SV),
                               Mul(Mul(a13, Sub(Mul(sr, SL), Mul(lr, SS))), xm1)),
                           Mul(Add(Mul(Add(Add(Mul(fr.a21, lr), Mul(fr.a22, mr)),
                                           Mul(fr.a33, sr)), SL),
                                   Mul(lr, SV)), x_ref_min))
            IN  [a11 |-> my_round(Div(n11, den), fr.mat_dp),
                 a12 |-> my_round(Div(n12, den), fr.mat_dp),
                 a13 |-> my_round(a13, fr.mat_dp)]
    IN  Row(MinSeq(Col(SubSeq(fr.cc_ref, RefSkip + 1, Len(fr.cc_ref)), 1)),
            Spline(fr.lms, 1, lambda_ref_min),
            Spline(fr.lms, 2, lambda_ref_min),
            Spline(fr.lms, 3, lambda_ref_min),
            SumSeq(SplineAt(fr.lms, 1, fr.lambdas)),
            SumSeq(SplineAt(fr.lms, 2, fr.lambdas)),
            SumSeq(SplineAt(fr.lms, 3, fr.lambdas)),
            SumSeq(SplineAt(fr.v_lambda, 1, fr.lambdas)))

\* The array of line 706 written column by column: its transpose.
TransMatTransposed(a13, fr, lambda_ref_min) ==
    LET Matrix(a) ==
            << <<a.a11, fr.a21, 0>>,
               <<a.a12, fr.a22, 0>>,
               <<a.a13, 0, fr.a33>> >>
    IN  Matrix(FirstRow(a13, fr, lambda_ref_min))

\* The matrix with its last entry refitted by the trial: a13 in place of a33.
TransMatRefitted(a13, fr, lambda_ref_min) ==
    LET Matrix(a) ==
            << <<a.a11, a.a12, a.a13>>,
               <<fr.a21, fr.a22, 0>>,
               <<0, 0, a.a13>> >>
    IN  Matrix(FirstRow(a13, fr, lambda_ref_min))

\* trans_mat = np.array([[a11, a12, a13], [a21, a22, 0], [0, 0, a33]])
TransMat(a13, fr, lambda_ref_min) ==
    LET Matrix(a) ==
            << <<a.a11, a.a12, a.a13>>,
               <<fr.a21, fr.a22, 0>>,
               <<0, 0, fr.a33>> >>
    IN  Matrix(FirstRow(a13, fr, lambda_ref_min))

\* The body of square_sum up to its return: the matrix, the modelled
\* chromaticities on np.arange(390, 831), their error against the reference
\* locus, and the wavelength of the least modelled x.
Trial(a13, fr, lambda_ref_min) ==
    LET Result(trans_mat, cc, cc_ref_trunk) ==
            [err |-> SumSeq([k \in 1..(3 * Len(Grid)) |->
                        LET i == ((k - 1) \div 3) + 1
                            c == ((k - 1) % 3) + 1
                        IN  SqDiff(cc[i][c], cc_ref_trunk[i][c + 1])]),
             trans_mat |-> trans_mat, cc |-> cc,
             lambda_test_min |->
                 Grid[ArgMin(AsArray([i \in 1..Len(Grid) |-> cc[i][1]]))]]
        Modelled(trans_mat) ==
            Result(trans_mat,
                   ChromaticityOf(Tristimulus(trans_mat, Resample(fr.lms, Grid),
                                              fr.xyz_signfig)),
                   SubSeq(fr.cc_ref, RefSkip + 1, Len(fr.cc_ref)))
    IN  Modelled(TransMat(a13, fr, lambda_ref_min))

\* square_sum without the test of the landmark: every trial is accepted.
square_sum_accepting(a13, fr, lambda_ref_min) ==
    LET Full(t) ==
            [err |-> t.err, trans_mat |-> t.trans_mat,
             lambda_test_min |-> t.lambda_test_min, ok |-> TRUE, cc |-> t.cc]
    IN  Full(Trial(a13, fr, lambda_ref_min))

\* square_sum reporting the landmark it was given in place of the wavelength
\* of the least modelled x.
square_sum_holding(a13, fr, lambda_ref_min) ==
    LET Full(t) ==
            [err |-> t.err, trans_mat |-> t.trans_mat,
             lambda_test_min |-> lambda_ref_min,
             ok |-> (t.lambda_test_min = lambda_ref_min), cc |-> t.cc]
    IN  Full(Trial(a13, fr, lambda_ref_min))

\* square_sum with full_results: the error, the matrix, the wavelength of the
\* least modelled x, and whether it is the landmark.
square_sum(a13, fr, lambda_ref_min) ==
    LET Full(t) ==
            [err |-> t.err, trans_mat |-> t.trans_mat,
             lambda_test_min |-> t.lambda_test_min,
             ok |-> (t.lambda_test_min = lambda_ref_min), cc |-> t.cc]
    IN  Full(Trial(a13, fr, lambda_ref_min))

\* scipy.optimize.fmin(square_sum, 0.39, ...): a direct search from the initial
\* guess.  The model tries the values of A13Steps in turn and keeps one only
\* when its error is less than the best so far (a nan error is never less).
A13Guess == 39
A13Steps == <<29, 49, 19, 59, 9, 69>>

RECURSIVE FminFrom(_, _, _, _)
FminFrom(best, fr, lambda_ref_min, i) ==
    IF i > Len(A13Steps) THEN best
    ELSE IF Lt(square_sum(A13Steps[i], fr, lambda_ref_min).err,
               square_sum(best, fr, lambda_ref_min).err)
         THEN FminFrom(A13Steps[i], fr, lambda_ref_min, i + 1)
         ELSE FminFrom(best, fr, lambda_ref_min, i + 1)

fmin(fr, lambda_ref_min) == FminFrom(A13Guess, fr, lambda_ref_min, 1)

\* ------------------------------------------------------------------------
\* compute_tabulated
\* ------------------------------------------------------------------------

\* np.arange(390, 830 + resolution, resolution), resolution # 0.
Lambdas(resolution) ==
    IF resolution > 0 THEN Arange(LambdaStart, LambdaEnd + resolution, resolution)
    ELSE <<>>

WithLambdas(ws, rows) == AsArray([i \in 1..Len(ws) |-> <<ws[i]>> \o rows[i]])

ValuesOf(t) == AsArray([i \in 1..Len(t) |-> Tail(t[i])])

\* The rows with every value raised to the next multiple of 10^-n.
RoundRowsUp(rows, n) ==
    AsArray([i \in 1..Len(rows) |->
        AsArray([c \in 1..Len(rows[i]) |->
            IF ~IsFinite(rows[i][c]) \/ n >= FloatDp THEN rows[i][c]
            ELSE ((rows[i][c] + Pow10(FloatDp - n) - 1) \div Pow10(FloatDp - n))
                     * Pow10(FloatDp - n)])])

RoundRows(rows, n) ==
    AsArray([i \in 1..Len(rows) |-> AsArray([c \in 1..Len(rows[i]) |-> my_round(rows[i][c], n)])])

\* np.sum(x, 0) of rows of three values.
ColSums(rows) == AsArray([c \in 1..3 |-> SumSeq(AsArray([i \in 1..Len(rows) |-> rows[i][c]]))])

\* x / y, element by element.
PerRow(x, y) == AsArray([i \in 1..Len(x) |-> Div(x[i], y[i])])

\* The rows as they are, no column divided.
Undivided(rows, s) == rows

\* x / np.sum(y, 0): every column by its divisor.
PerColumn(rows, s) ==
    AsArray([i \in 1..Len(rows) |-> AsArray([c \in 1..3 |-> Div(rows[i][c], s[c])])])

\* w / np.sum(w), rounded
WhitePoint(w, n) ==
    LET sum == SumSeq(w) IN AsArray([c \in 1..3 |-> my_round(Div(w[c], sum), n)])

\* The coordinates without the weights of the luminosity function.
BoyntonMacLeodUnweighted(trans_mat, lms, v, bm_s_max) ==
    AsArray([i \in 1..Len(lms) |->
        << Div(lms[i][1], v[i]), Div(lms[i][2], v[i]),
           Div(Div(lms[i][3], v[i]), bm_s_max) >>])

\* Boynton-MacLeod coordinates of rows <<l, m, s>> against the luminances v.
BoyntonMacLeod(trans_mat, lms, v, bm_s_max) ==
    AsArray([i \in 1..Len(lms) |->
        << Div(Mul(trans_mat[2][1], lms[i][1]), v[i]),
           Div(Mul(trans_mat[2][2], lms[i][2]), v[i]),
           Div(Div(lms[i][3], v[i]), bm_s_max) >>])

\* ------------------------------------------------------------------------
\* The purple line: scipy.spatial.Delaunay(points).convex_hull
\* ------------------------------------------------------------------------

Cross(p, q, r) == (q[1] - p[1]) * (r[2] - p[2]) - (q[2] - p[2]) * (r[1] - p[1])

\* r lies on the segment from p to q, strictly between them.
Between(p, q, r) ==
    /\ Cross(p, q, r) = 0
    /\ r # p /\ r # q
    /\ (IF p[1] # q[1] THEN (p[1] < r[1] /\ r[1] < q[1]) \/ (q[1] < r[1] /\ r[1] < p[1])
        ELSE (p[2] < r[2] /\ r[2] < q[2]) \/ (q[2] < r[2] /\ r[2] < p[2]))

\* Qhull fails on an input with a coordinate that is no number and on one
\* whose points all lie on a line.
QhullFails(pts) ==
    \/ \E i \in 1..Len(pts) : ~IsFinite(pts[i][1]) \/ ~IsFinite(pts[i][2])
    \/ \A i, j, k \in 1..Len(pts) : Cross(pts[i], pts[j], pts[k]) = 0

\* Of coincident points Qhull keeps the first.
Kept(pts, i) == \A k \in 1..(i - 1) : pts[k] # pts[i]

\* The pairs of (0-based) indices of the facets of the hull, as sets.
HullEdges(pts) ==
    { e \in SUBSET (1..Len(pts)) :
        /\ Cardinality(e) = 2
        /\ \E i, j \in e :
              /\ i < j
              /\ Kept(pts, i) /\ Kept(pts, j)
              /\ \/ \A k \in 1..Len(pts) : Cross(pts[i], pts[j], pts[k]) >= 0
                 \/ \A k \in 1..Len(pts) : Cross(pts[i], pts[j], pts[k]) <= 0
              /\ \A k \in 1..Len(pts) : ~Between(pts[i], pts[j], pts[k]) }

Lo(e) == CHOOSE i \in e : \A j \in e : i <= j

Hi(e) == CHOOSE i \in e : \A j \in e : i >= j

\* The order of the facets in convex_hull and of the two vertices in a facet
\* is Qhull's: the model lists them by ascending (order = "asc") or
\* descending first vertex, each facet <<i, j>> with i < j ("asc") or i > j.
RECURSIVE HullList(_, _)
HullList(edges, order) ==
    IF edges = {} THEN <<>>
    ELSE LET e == CHOOSE e \in edges :
                    \A f \in edges :
                        IF order = "asc"
                        THEN Lo(e) < Lo(f) \/ (Lo(e) = Lo(f) /\ Hi(e) <= Hi(f))
                        ELSE Hi(e) > Hi(f) \/ (Hi(e) = Hi(f) /\ Lo(e) >= Lo(f))
         IN  << IF order = "asc" THEN <<Lo(e), Hi(e)>> ELSE <<Hi(e), Lo(e)>> >>
             \o HullList(edges \ {e}, order)

convex_hull(pts, order) == HullList(HullEdges(pts), order)

\* The first and the last row taken for the ends of the purple line.
PurpleLineOfEnds(t, c1, c2, order) ==
    << <<t[1][1], t[1][c1 + 1], t[1][c2 + 1]>>,
       <<t[Len(t)][1], t[Len(t)][c1 + 1], t[Len(t)][c2 + 1]>> >>

\* ind = np.argmax(np.abs(convex_hull[:,0] - convex_hull[:,1])) and the two
\* rows <<wavelength, first coordinate, second coordinate>> of its vertices;
\* t is the table, c1 and c2 the columns of the two coordinates.
PurpleLine(t, c1, c2, order) ==
    LET Ends(i, j) ==
            << <<t[i][1], t[i][c1 + 1], t[i][c2 + 1]>>,
               <<t[j][1], t[j][c1 + 1], t[j][c2 + 1]>> >>
        Longest(hull, ind) == Ends(hull[ind][1], hull[ind][2])
        Of(hull) ==
            Longest(hull,
                ArgMax(AsArray([k \in 1..Len(hull) |->
                    F(IAbs(hull[k][1] - hull[k][2]))])))
    IN  Of(convex_hull(AsArray([i \in 1..Len(t) |-> <<t[i][c1 + 1], t[i][c2 + 1]>>]),
                       order))

PurpleFails(t, c1, c2) ==
    QhullFails(AsArray([i \in 1..Len(t) |-> <<t[i][c1 + 1], t[i][c2 + 1]>>]))

RoundPurple(pl, n) ==
    AsArray([r \in 1..2 |-> <<pl[r][1], my_round(pl[r][2], n), my_round(pl[r][3], n)>>])

\* Lines 937-942, "Hack to report correct wavelength also for the chromaticity
\* diagram": the wavelength of the second row is that of purple_line_bm when
\* the two differ.
ReportedPurpleLine(purple_line_cc, purple_line_bm) ==
    IF purple_line_cc[2][1] # purple_line_bm[2][1]
    THEN <<purple_line_cc[1],
           <<purple_line_bm[2][1], purple_line_cc[2][2], purple_line_cc[2][3]>> >>
    ELSE purple_line_cc

\* Lines 836-988 of compute_tabulated: the tables, the white points and the
\* purple lines from the frame fr of the call (a its arguments), the matrix
\* and the landmark the loop ended with.  An exception of Delaunay ends the
\* call.
Tabulate(vd, a, fr, trans_mat, lambda_ref_min, order) ==
    LET Bundle(t, p, pl) ==
            [ kind |-> "bundle",
              xyz |-> WithLambdas(fr.lambdas, t.xyz),
              cc |-> WithLambdas(fr.lambdas, t.cc),
              cc_white |-> t.cc_white,
              trans_mat |-> trans_mat,
              lms_standard |-> WithLambdas(fr.lambdas, t.lms_standard),
              lms |-> WithLambdas(fr.lambdas, t.lms),
              bm |-> WithLambdas(fr.lambdas, t.bm),
              bm_white |-> t.bm_white,
              lm |-> WithLambdas(fr.lambdas, t.lm),
              lm_white |-> t.lm_white,
              lambda_ref_min |-> lambda_ref_min,
              purple_line_cc |->
                  ReportedPurpleLine(RoundPurple(pl.cc, a.cc_dp),
                                     RoundPurple(pl.bm, a.bm_dp)),
              purple_line_bm |-> RoundPurple(pl.bm, a.bm_dp),
              purple_line_lm |-> RoundPurple(pl.lm, a.lm_dp),
              plots |-> [ lms |-> fr.plots_lms,
                          xyz |-> p.xyz,
                          cc |-> p.cc,
                          bm |-> p.bm,
                          lm |-> p.lm,
                          purple_line_cc |-> pl.cc,
                          purple_line_bm |-> pl.bm,
                          purple_line_lm |-> pl.lm,
                          xyz31 |-> copy(vd, DatasetRef("xyz31")),
                          xyz64 |-> copy(vd, DatasetRef("xyz64")),
                          cc31 |-> p.cc31,
                          cc64 |-> p.cc64,
                          purple_line_cc31 |-> pl.cc31,
                          purple_line_cc64 |-> pl.cc64 ] ]
        \* Lines 911-955: the purple lines, of the plots
        Lines(t, p) ==
            IF \/ PurpleFails(p.cc, 1, 2) \/ PurpleFails(p.bm, 1, 3)
               \/ PurpleFails(p.lm, 1, 2)
               \/ PurpleFails(p.cc31, 1, 2) \/ PurpleFails(p.cc64, 1, 2)
            THEN [kind |-> "exception", exc |-> "QhullError"]
            ELSE Bundle(t, p, [cc |-> PurpleLine(p.cc, 1, 2, order),
                               bm |-> PurpleLine(p.bm, 1, 3, order),
                               lm |-> PurpleLine(p.lm, 1, 2, order),
                               cc31 |-> PurpleLine(p.cc31, 1, 2, order),
                               cc64 |-> PurpleLine(p.cc64, 1, 2, order)])
        \* The tables of the plots, from plots['lms']
        Plots(t, plots_lms, plots_w, plots_xyz) ==
            Lines(t,
                [ xyz |-> WithLambdas(plots_w, plots_xyz),
                  cc |-> WithLambdas(plots_w, ChromaticityOf(plots_xyz)),
                  bm |-> WithLambdas(plots_w,
                            BoyntonMacLeod(trans_mat, plots_lms,
                                AsArray([i \in 1..Len(plots_xyz) |-> plots_xyz[i][2]]),
                                fr.bm_s_max)),
                  lm |-> WithLambdas(plots_w,
                            ChromaticityOf(PerColumn(
                                IF a.lm_dp <= 5
                                THEN AsArray([i \in 1..Len(plots_lms) |->
                                         AsArray([c \in 1..3 |->
                                             significant_figures(plots_lms[i][c],
                                                                 a.lms_signfig)])])
                                ELSE plots_lms,
                                ColSums(t.lms_N)))),
                  cc31 |-> RoundTable(vd.cc31, 5),
                  cc64 |-> RoundTable(vd.cc64, 5) ])
        PlotsOf(t, plots_lms) ==
            Plots(t, plots_lms, Col(Deref(vd, fr.plots_lms), 0),
                  Tristimulus(trans_mat, plots_lms, a.xyz_signfig))
        White(L_E, M_E, S_E) ==
            AsArray([c \in 1..3 |->
                my_round(Div(<<L_E, M_E, S_E>>[c], Add(L_E, M_E)), a.bm_dp)])
        \* The tables at the sampled wavelengths
        Tables(lms, lms_standard, xyz, sums, lms_N) ==
            PlotsOf(
                [ lms |-> lms,
                  lms_standard |-> lms_standard,
                  xyz |-> xyz,
                  cc |-> RoundRows(ChromaticityOf(xyz), a.cc_dp),
                  cc_white |-> WhitePoint(ColSums(xyz), a.cc_dp),
                  bm |-> RoundRows(BoyntonMacLeod(trans_mat, lms,
                                       SplineAt(fr.v_lambda, 1, fr.lambdas),
                                       fr.bm_s_max),
                                   a.bm_dp),
                  bm_white |-> White(Mul(trans_mat[2][1], sums[1]),
                                     Mul(trans_mat[2][2], sums[2]),
                                     Div(sums[3], fr.bm_s_max)),
                  lms_N |-> lms_N,
                  lm |-> RoundRows(ChromaticityOf(lms_N), a.lm_dp),
                  lm_white |-> WhitePoint(ColSums(lms_N), a.lm_dp) ],
                ValuesOf(Deref(vd, fr.plots_lms)))
        Normalised(lms, lms_standard, lms_N0) ==
            Tables(lms, lms_standard, Tristimulus(trans_mat, lms, a.xyz_signfig),
                   ColSums(lms), PerColumn(lms_N0, ColSums(lms_N0)))
        Sampled(lms, lms_standard) ==
            Normalised(lms, lms_standard, IF a.lm_dp > 5 THEN lms ELSE lms_standard)
    IN  Sampled(Resample(fr.lms, fr.lambdas), Resample(fr.lms_standard, fr.lambdas))

\* ------------------------------------------------------------------------
\* The program as a state machine
\* ------------------------------------------------------------------------

\* xyz_signfig, cc_dp, mat_dp, lms_signfig, bm_dp, lm_dp: the defaults, the
\* defaults with lm_dp = 6, and a coarse setting.
Default == [xyz_signfig |-> 7, cc_dp |-> 5, mat_dp |-> 8, lms_signfig |-> 6,
            bm_dp |-> 6, lm_dp |-> 5]

FineLm == [Default EXCEPT !.lm_dp = 6]

Coarse == [xyz_signfig |-> 2, cc_dp |-> 1, mat_dp |-> 1, lms_signfig |-> 2,
           bm_dp |-> 1, lm_dp |-> 1]

Call(f, g, r, p) ==
    [field_size |-> f, age |-> g, resolution |-> r,
     xyz_signfig |-> p.xyz_signfig, cc_dp |-> p.cc_dp, mat_dp |-> p.mat_dp,
     lms_signfig |-> p.lms_signfig, bm_dp |-> p.bm_dp, lm_dp |-> p.lm_dp]

\* The arguments the calls are made with: the two reference conditions, other
\* field sizes and ages, a resolution that does not divide 830 - 390, a zero
\* of each of field_size, age and resolution, a negative resolution.
Arguments ==
    { Call(2, 32, 110, Default), Call(10, 32, 110, Default),
      Call(5, 32, 220, Default), Call(5, 32, 110, FineLm),
      Call(2, 32, 150, Default),
      Call(5, 60, 110, Coarse), Call(10, 32, 110, Coarse),
      Call(0, 32, 110, Default), Call(2, 0, 110, Default),
      Call(2, 32, 0, Default), Call(2, 32, -110, Default) }

NoArguments == [field_size |-> 0, age |-> 0, resolution |-> 0,
                xyz_signfig |-> 0, cc_dp |-> 0, mat_dp |-> 0,
                lms_signfig |-> 0, bm_dp |-> 0, lm_dp |-> 0]

\* The locals of compute_tabulated before their assignment.
NoFrame == [plots_lms |-> Fresh(<<>>), lms |-> <<>>, lms_standard |-> <<>>,
            v_lambda |-> <<>>, bm_s_max |-> 0, lambdas |-> <<>>,
            a21 |-> 0, a22 |-> 0, a33 |-> 0, cc_ref |-> <<>>,
            xyz_signfig |-> 0, mat_dp |-> 0]

\* lms, tmp = lms_energy_base(field_size, age); plots['lms'] = lms.copy()
BaseFrame(vd, a, f) ==
    LET Frame(b) ==
            [vd |-> b.vd,
             fr |-> [f EXCEPT !.lms = Deref(b.vd, b.out),
                              !.plots_lms = copy(b.vd, b.out)]]
    IN  Frame(lms_energy_base(vd, a.field_size, a.age))

\* lms_standard, tmp = lms_energy(field_size, age, lms_signfig)
StandardFrame(vd, a, f) ==
    LET Frame(st) ==
            [vd |-> st.vd, fr |-> [f EXCEPT !.lms_standard = Deref(st.vd, st.out)]]
    IN  Frame(lms_energy(vd, a.field_size, a.age, a.lms_signfig))

\* The weights rounded to mat_dp on their way into the matrix.
LuminanceFrameRounded(vd, a, f) ==
    LET Frame(v, v_lambda) ==
            [vd |-> v.vd,
             fr |-> [f EXCEPT
                      !.v_lambda = v_lambda,
                      !.a21 = my_round(v.weights[1], a.mat_dp),
                      !.a22 = my_round(v.weights[2], a.mat_dp),
                      !.bm_s_max = MaxSeq(PerRow(Col(f.lms, 3), Col(v_lambda, 1)))]]
        Of(v) == Frame(v, Deref(v.vd, v.out))
    IN  Of(v_lambda_energy_from_lms(vd, a.field_size, a.age, a.xyz_signfig, a.mat_dp))

\* v_lambda, weights = v_lambda_energy_from_lms(...); bm_s_max
LuminanceFrame(vd, a, f) ==
    LET Frame(v, v_lambda) ==
            [vd |-> v.vd,
             fr |-> [f EXCEPT
                      !.v_lambda = v_lambda,
                      !.a21 = v.weights[1],
                      !.a22 = v.weights[2],
                      !.bm_s_max = MaxSeq(PerRow(Col(f.lms, 3), Col(v_lambda, 1)))]]
        Of(v) == Frame(v, Deref(v.vd, v.out))
    IN  Of(v_lambda_energy_from_lms(vd, a.field_size, a.age, a.xyz_signfig, a.mat_dp))

\* Lines 805-821: the wavelengths, a33 and the reference locus.
ResampleFrame(vd, a, f) ==
    LET Frame(cr, lambdas) ==
            [vd |-> cr.vd,
             fr |-> [f EXCEPT
                      !.lambdas = lambdas,
                      !.a33 = my_round(Div(SumSeq(SplineAt(f.v_lambda, 1, lambdas)),
                                           SumSeq(SplineAt(f.lms, 3, lambdas))),
                                       a.mat_dp),
                      !.cc_ref = Deref(cr.vd, cr.out),
                      !.xyz_signfig = a.xyz_signfig,
                      !.mat_dp = a.mat_dp]]
    IN  Frame(chromaticity_interpolated(vd, a.field_size), Lambdas(a.resolution))

\* What the caller writes into a table it was handed.
Poison == 777

VARIABLES
    dataset,         \* which data files VisualData was loaded from
    qhull,           \* the order in which Qhull lists the facets of a hull
    VisualData,      \* the class attributes of VisualData
    pc,              \* the line compute_tabulated is at, "idle" outside it
    args,            \* the arguments of the call
    fr,              \* the locals of the call that the loop leaves alone
    lambda_ref_min,  \* the landmark
    ok,              \* the loop's flag
    err,             \* the error of the last trial
    trans_mat,       \* the matrix of the last trial
    trial,           \* the chromaticities of the last trial on np.arange(390, 831)
    visited,         \* the landmarks the loop has solved for in this call
    outcome,         \* what the last call gave its caller
    memo,            \* the first outcome of compute_tabulated and its arguments
    cloud,           \* a wavelength-labelled point cloud given to the purple-line analysis
    order,           \* the order its rows are analysed in
    original,        \* the purple line of the cloud as given
    reordered,       \* the purple line of the cloud with its rows in that order
    reports,         \* the purple lines reported for the cloud, one per companion diagram
    call,            \* a function called on its own with scalar arguments
    value            \* what it returned

vars == <<dataset, qhull, VisualData, pc, args, fr, lambda_ref_min, ok, err,
          trans_mat, trial, visited, outcome, memo, cloud, order, original, reordered,
          reports, call, value>>

geometry == <<cloud, order, original, reordered, reports>>

scalars == <<call, value>>

loop == <<lambda_ref_min, ok, err, trans_mat, trial, visited>>

Init ==
    /\ dataset \in Datasets
    /\ qhull \in {"asc", "desc"}
    /\ VisualData = LoadVisualData(dataset)
    /\ pc = "idle"
    /\ args = NoArguments
    /\ fr = NoFrame
    /\ lambda_ref_min = 0
    /\ ok = FALSE
    /\ err = 0
    /\ trans_mat = <<>>
    /\ trial = <<>>
    /\ visited = {}
    /\ outcome = [kind |-> "none"]
    /\ memo = [set |-> FALSE]
    /\ cloud = <<>>
    /\ order = <<>>
    /\ original = <<>>
    /\ reordered = <<>>
    /\ reports = {}
    /\ call = [f |-> "none"]
    /\ value = 0

\* The call ends, by a return or an exception: its arguments and locals are
\* no more.
EndCall ==
    /\ pc' = "idle"
    /\ args' = NoArguments
    /\ fr' = NoFrame
    /\ lambda_ref_min' = 0
    /\ ok' = FALSE
    /\ err' = 0
    /\ trans_mat' = <<>>
    /\ trial' = <<>>
    /\ visited' = {}

\* compute_tabulated(field_size, age, resolution, ...) is entered.
CallComputeTabulated ==
    /\ pc = "idle"
    /\ \E a \in Arguments : args' = a
    /\ pc' = "lms_energy_base"
    /\ outcome' = [kind |-> "none"]
    /\ UNCHANGED <<dataset, qhull, VisualData, fr, loop, memo>>
    /\ UNCHANGED <<geometry, scalars>>

\* lms, tmp = lms_energy_base(field_size, age); plots['lms'] = lms.copy()
BaseStep ==
    /\ pc = "lms_energy_base"
    /\ \E b \in {BaseFrame(VisualData, args, fr)} :
           VisualData' = b.vd /\ fr' = b.fr
    /\ pc' = "lms_energy"
    /\ UNCHANGED <<dataset, qhull, args, loop, outcome, memo>>
    /\ UNCHANGED <<geometry, scalars>>

\* lms_standard, tmp = lms_energy(field_size, age, lms_signfig)
StandardStep ==
    /\ pc = "lms_energy"
    /\ \E st \in {StandardFrame(VisualData, args, fr)} :
           VisualData' = st.vd /\ fr' = st.fr
    /\ pc' = "v_lambda"
    /\ UNCHANGED <<dataset, qhull, args, loop, outcome, memo>>
    /\ UNCHANGED <<geometry, scalars>>

\* v_lambda, weights = v_lambda_energy_from_lms(...); bm_s_max
LuminanceStep ==
    /\ pc = "v_lambda"
    /\ \E v \in {LuminanceFrame(VisualData, args, fr)} :
           VisualData' = v.vd /\ fr' = v.fr
    /\ pc' = "resample"
    /\ UNCHANGED <<dataset, qhull, args, loop, outcome, memo>>
    /\ UNCHANGED <<geometry, scalars>>

\* Lines 791-823: the wavelengths, a33, the reference locus, and the landmark
\* the loop starts from.  np.arange raises for resolution = 0.
ResampleStep ==
    /\ pc = "resample"
    /\ IF args.resolution = 0
       THEN /\ EndCall
            /\ outcome' = [kind |-> "exception", exc |-> "ZeroDivisionError"]
            /\ UNCHANGED VisualData
       ELSE \E cr \in {ResampleFrame(VisualData, args, fr)} :
                /\ VisualData' = cr.vd
                /\ fr' = cr.fr
                /\ lambda_ref_min' = LandmarkInit
                /\ ok' = FALSE
                /\ pc' = "while"
                /\ UNCHANGED <<args, err, trans_mat, trial, visited, outcome>>
    /\ UNCHANGED <<dataset, qhull, memo>>
    /\ UNCHANGED <<geometry, scalars>>

\* A loop that gives up with an error when a landmark comes back unconverged.
SolverIterationGivingUp ==
    /\ pc = "while"
    /\ ~ok
    /\ IF lambda_ref_min \in visited
       THEN /\ EndCall
            /\ outcome' = [kind |-> "exception", exc |-> "ConvergenceError"]
       ELSE /\ \E r \in {square_sum(fmin(fr, lambda_ref_min), fr, lambda_ref_min)} :
                   /\ err' = r.err
                   /\ trans_mat' = r.trans_mat
                   /\ lambda_ref_min' = r.lambda_test_min
                   /\ ok' = r.ok
                   /\ trial' = r.cc
            /\ visited' = visited \cup {lambda_ref_min}
            /\ UNCHANGED <<pc, args, fr, outcome>>
    /\ UNCHANGED <<dataset, qhull, VisualData, memo>>
    /\ UNCHANGED <<geometry, scalars>>

\* One turn of "while not ok": fmin, then square_sum with full results.
SolverIteration ==
    /\ pc = "while"
    /\ ~ok
    /\ \E r \in {square_sum(fmin(fr, lambda_ref_min), fr, lambda_ref_min)} :
           /\ err' = r.err
           /\ trans_mat' = r.trans_mat
           /\ lambda_ref_min' = r.lambda_test_min
           /\ ok' = r.ok
           /\ trial' = r.cc
    /\ visited' = visited \cup {lambda_ref_min}
    /\ UNCHANGED <<dataset, qhull, VisualData, pc, args, fr, outcome, memo>>
    /\ UNCHANGED <<geometry, scalars>>

\* The loop is left and lines 836-988 run to the return or to an exception.
TabulateStep ==
    /\ pc = "while"
    /\ ok
    /\ outcome' = Tabulate(VisualData, args, fr, trans_mat, lambda_ref_min, qhull)
    /\ memo' = IF memo.set THEN memo
               ELSE [set |-> TRUE, args |-> args, outcome |-> outcome']
    /\ EndCall
    /\ UNCHANGED <<dataset, qhull, VisualData>>
    /\ UNCHANGED <<geometry, scalars>>

\* The functions of the module that return a table.
Functions ==
    {"lms_energy_base", "lms_energy", "lms_quantal", "absorpt", "ocular",
     "v_lambda_quantal", "v_lambda_energy_from_quantal",
     "v_lambda_energy_from_lms", "chromaticity_interpolated"}

Apply(f, vd, a) ==
    CASE f = "lms_energy_base" -> lms_energy_base(vd, a.field_size, a.age)
      [] f = "lms_energy" -> lms_energy(vd, a.field_size, a.age, a.lms_signfig)
      [] f = "lms_quantal" -> lms_quantal(vd, a.field_size, a.age)
      [] f = "absorpt" -> absorpt(vd, a.field_size)
      [] f = "ocular" -> ocular(vd, a.age)
      [] f = "v_lambda_quantal" -> v_lambda_quantal(vd, a.field_size, a.age)
      [] f = "v_lambda_energy_from_quantal" ->
             v_lambda_energy_from_quantal(vd, a.field_size, a.age)
      [] f = "v_lambda_energy_from_lms" ->
             v_lambda_energy_from_lms(vd, a.field_size, a.age, a.xyz_signfig, a.mat_dp)
      [] f = "chromaticity_interpolated" -> chromaticity_interpolated(vd, a.field_size)

\* The second value of the functions that return a pair.
Second(f, r) ==
    CASE f = "v_lambda_energy_from_lms" -> r.weights
      [] f \in {"lms_energy_base", "lms_energy"} -> r.lms_max
      [] OTHER -> <<>>

\* The arguments the functions are called with on their own: a reference
\* condition and another.
Conditions ==
    {Call(2, 32, 110, Default), Call(10, 32, 110, Coarse), Call(5, 60, 110, Coarse)}

\* One of the functions is called on its own and returns its table.
CallFunction ==
    /\ pc = "idle"
    /\ \E f \in Functions, a \in Conditions :
          \E r \in {Apply(f, VisualData, a)} :
              /\ VisualData' = r.vd
              /\ outcome' = [kind |-> "table", of |-> f, args |-> a, ref |-> r.out,
                              second |-> Second(f, r)]
    /\ UNCHANGED <<dataset, qhull, pc, args, fr, loop, memo>>
    /\ UNCHANGED <<geometry, scalars>>

\* t[0,1] = Poison, by the caller, on a table r it was handed.
Write(vd, r) ==
    LET t == Deref(vd, r)
    IN  Store(vd, r, 1, AsArray([i \in 1..Len(t) |-> IF i = 1 THEN Poison ELSE t[i][2]]))

\* The tables of the bundle that are copies of a table of another owner.
Copies == {"lms", "xyz31", "xyz64"}

\* The caller writes into a table of the last outcome; what becomes of the
\* caller's own arrays is not followed any further.
CallerMutate ==
    /\ pc = "idle"
    /\ \/ /\ outcome.kind = "table"
          /\ VisualData' = Write(VisualData, outcome.ref).vd
       \/ /\ outcome.kind = "bundle"
          /\ \E k \in Copies : VisualData' = Write(VisualData, outcome.plots[k]).vd
    /\ outcome' = [kind |-> "written"]
    /\ UNCHANGED <<dataset, qhull, pc, args, fr, loop, memo>>
    /\ UNCHANGED <<geometry, scalars>>

Next ==
    \/ CallComputeTabulated
    \/ BaseStep
    \/ StandardStep
    \/ LuminanceStep
    \/ ResampleStep
    \/ SolverIteration
    \/ TabulateStep
    \/ CallFunction
    \/ CallerMutate

Spec == Init /\ [][Next]_vars

\* ------------------------------------------------------------------------
\* The purple-line analysis on its own
\* ------------------------------------------------------------------------

\* The clouds the analysis is given: CloudSize rows, labelled with the first
\* wavelengths of the grid, at the points of a lattice 0..MaxCoord in both
\* coordinates (in units of 0.01), Delaunay accepting them.
CloudSize == 4

MaxCoord == 1

Lattice == {<<x, y>> : x \in 0..MaxCoord, y \in 0..MaxCoord}

Clouds ==
    { t \in [1..CloudSize -> {<<Grid[i], q[1], q[2]>> : i \in 1..CloudSize, q \in Lattice}] :
         /\ \A i \in 1..CloudSize : t[i][1] = Grid[i]
         /\ ~PurpleFails(t, 1, 2) }

Orders == { p \in [1..CloudSize -> 1..CloudSize] : \A i \in 1..CloudSize : \E k \in 1..CloudSize : p[k] = i }

\* The rows of t in the order p.
Permute(t, p) == AsArray([i \in 1..Len(t) |-> t[p[i]]])

GeometryInit ==
    /\ dataset = 1
    /\ qhull \in {"asc", "desc"}
    /\ VisualData = LoadVisualData(1)
    /\ pc = "idle"
    /\ args = NoArguments
    /\ fr = NoFrame
    /\ lambda_ref_min = 0
    /\ ok = FALSE
    /\ err = 0
    /\ trans_mat = <<>>
    /\ trial = <<>>
    /\ visited = {}
    /\ outcome = [kind |-> "none"]
    /\ memo = [set |-> FALSE]
    /\ cloud \in Clouds
    /\ order = AsArray([i \in 1..CloudSize |-> i])
    /\ original = <<>>
    /\ reordered = <<>>
    /\ reports = {}
    /\ call = [f |-> "none"]
    /\ value = 0

\* The analysis of lines 911-921 on the cloud as given.
AnalyseCloud ==
    /\ original = <<>>
    /\ original' = PurpleLine(cloud, 1, 2, qhull)
    /\ UNCHANGED <<dataset, qhull, VisualData, pc, args, fr, loop, outcome, memo,
                   cloud, order, reordered, reports, scalars>>

\* The same analysis on a copy of the cloud with its rows reordered.
AnalyseReordered ==
    /\ original # <<>>
    /\ reordered = <<>>
    /\ reports = {}
    /\ \E p \in Orders :
          /\ order' = p
          /\ reordered' = PurpleLine(Permute(cloud, p), 1, 2, qhull)
    /\ UNCHANGED <<dataset, qhull, VisualData, pc, args, fr, loop, outcome, memo,
                   cloud, original, reports, scalars>>

\* Lines 911-942 on the cloud as the cc diagram of a run whose bm diagram is
\* another cloud of the same wavelengths (its two coordinates standing for
\* columns 1 and 3): what the run reports as purple_line_cc.  Two runs are
\* followed.
AnalyseBeside ==
    /\ original # <<>>
    /\ reordered = <<>>
    /\ Cardinality(reports) < 2
    /\ \E bm \in Clouds :
          reports' = reports \cup
              { ReportedPurpleLine(RoundPurple(original, FloatDp),
                                   RoundPurple(PurpleLine(bm, 1, 2, qhull), FloatDp)) }
    /\ UNCHANGED <<dataset, qhull, VisualData, pc, args, fr, loop, outcome, memo,
                   cloud, order, original, reordered, scalars>>

GeometryNext ==
    \/ AnalyseCloud
    \/ AnalyseReordered
    \/ AnalyseBeside

PurpleSpec == GeometryInit /\ [][GeometryNext]_vars

\* ------------------------------------------------------------------------
\* The rounding functions and the ocular coefficient on their own
\* ------------------------------------------------------------------------

\* The decimal places my_round is called with.
MaxPlaces == 1

\* The arguments of significant_figures: up to MaxScalar/100 in magnitude,
\* up to MaxFigures significant figures.
MaxScalar == 120

MaxFigures == 3

\* The ages ocular is called with.
MinAge == 20

MaxAge == 80

ScalarInit ==
    /\ dataset = 1
    /\ qhull = "asc"
    /\ VisualData = LoadVisualData(1)
    /\ pc = "idle"
    /\ args = NoArguments
    /\ fr = NoFrame
    /\ lambda_ref_min = 0
    /\ ok = FALSE
    /\ err = 0
    /\ trans_mat = <<>>
    /\ trial = <<>>
    /\ visited = {}
    /\ outcome = [kind |-> "none"]
    /\ memo = [set |-> FALSE]
    /\ cloud = <<>>
    /\ order = <<>>
    /\ original = <<>>
    /\ reordered = <<>>
    /\ reports = {}
    /\ call = [f |-> "none"]
    /\ value = 0

\* my_round(x, n) on a float.
CallMyRound ==
    /\ call.f = "none"
    /\ \E x \in Doubles, n \in 0..MaxPlaces :
          /\ call' = [f |-> "my_round", x |-> x, n |-> n]
          /\ value' = my_round_float64(x, n)
    /\ UNCHANGED <<dataset, qhull, VisualData, pc, args, fr, loop, outcome, memo, geometry>>

\* significant_figures(x, n) on a Python float or int ("scalar") and on an
\* element of an ndarray ("array").
CallSignificantFigures ==
    /\ call.f = "none"
    /\ \E x \in (-MaxScalar)..MaxScalar, n \in 1..MaxFigures, type \in {"scalar", "array"} :
          /\ call' = [f |-> "significant_figures", x |-> x, n |-> n, type |-> type]
          /\ value' = IF type = "scalar" THEN significant_figures_scalar(x, n)
                       ELSE significant_figures(x, n)
    /\ UNCHANGED <<dataset, qhull, VisualData, pc, args, fr, loop, outcome, memo, geometry>>

\* ocular(age): the coefficient it applies to docul1_fine.
CallOcular ==
    /\ call.f = "none"
    /\ \E age \in MinAge..MaxAge :
          /\ call' = [f |-> "ocular", age |-> age]
          /\ value' = ocular_coefficient(age)
    /\ UNCHANGED <<dataset, qhull, VisualData, pc, args, fr, loop, outcome, memo, geometry>>

ScalarNext ==
    \/ CallMyRound
    \/ CallSignificantFigures
    \/ CallOcular

ScalarSpec == ScalarInit /\ [][ScalarNext]_vars

\* ------------------------------------------------------------------------
\* Properties
\* ------------------------------------------------------------------------

\* The modelled x on np.arange(390, 831): the matrix m applied to the cone
\* fundamentals of the frame f.
ModelledX(m, f) ==
    Col(ChromaticityOf(Tristimulus(m, Resample(f.lms, Grid), f.xyz_signfig)), 0)

\* x is least at the wavelength l of the grid.
LeastAt(x, l) ==
    \E k \in 1..Len(Grid) : Grid[k] = l /\ \A i \in 1..Len(Grid) : ~Lt(x[i], x[k])

\* The bundle b is returned from the frame f: its landmark is where the x of
\* its matrix is least, and its matrix is the one built with that landmark.
SelfConsistent(b, f) ==
    /\ LeastAt(ModelledX(b.trans_mat, f), b.lambda_ref_min)
    /\ b.trans_mat = TransMat(fmin(f, b.lambda_ref_min), f, b.lambda_ref_min)

\* C1: whenever compute_tabulated returns, the returned landmark is the
\* wavelength of the grid where the x modelled with the returned matrix is
\* least, and the returned matrix is the one built with that landmark.
C1_ReturnedLandmarkIsMinimum ==
    [][ (pc = "while" /\ ok /\ outcome'.kind = "bundle") => SelfConsistent(outcome', fr) ]_vars

\* C1, its case: a bundle is returned whose landmark is not the one the loop
\* started from, so the loop went round more than once.
C1_ReturnedAfterMovingLandmark ==
    outcome.kind = "bundle" /\ outcome.lambda_ref_min # LandmarkInit

\* C2: the landmark loop stops after a bounded number of iterations.  A turn
\* of the loop reads the landmark and locals that no turn changes, so a loop
\* that stops never starts a turn, unconverged, with a landmark it has
\* already solved for in the same call.
C2_LoopStops == (pc = "while" /\ ~ok) => lambda_ref_min \notin visited

\* C3: a call whose landmark does not stabilise ends in a convergence error:
\* once the loop is back, unconverged, at a landmark it has solved for, the
\* call goes on to nothing but that error.
C3_ConvergenceFailureSignalled ==
    [][ (pc = "while" /\ ~ok /\ lambda_ref_min \in visited)
            => (pc' = "idle" /\ outcome'.kind = "exception"
                /\ outcome'.exc = "ConvergenceError") ]_vars

\* C4: a call with field_size <= 0, age <= 0 or resolution <= 0 is rejected
\* before any computation step: it never gets past its entry.
C4_InvalidParameterRejected ==
    (pc # "idle" /\ (args.field_size <= 0 \/ args.age <= 0 \/ args.resolution <= 0))
        => pc = "lms_energy_base"

\* The tristimulus triples under the matrix m, and whether row i sums to zero.
ZeroSum(m, f, i) ==
    SumSeq(Tristimulus(m, Resample(f.lms, Grid), f.xyz_signfig)[i]) = 0

\* C5: a tristimulus triple with X + Y + Z = 0 ends the computation in an
\* error: no trial of the loop stores a not-a-number for such a triple.
C5_DegenerateSumRejected ==
    (pc = "while" /\ trial # <<>>)
        => \A i \in 1..Len(Grid) :
              ~(ZeroSum(trans_mat, fr, i) /\ ~IsFinite(trial[i][1]))

ZeroEntries(m) == m[2][3] = 0 /\ m[3][1] = 0 /\ m[3][2] = 0

\* C6: the matrix of every iteration of the loop and the matrix of the
\* returned bundle have zero entries [1][2], [2][0] and [2][1] (0-based).
C6_MatrixStructure ==
    /\ trans_mat # <<>> => ZeroEntries(trans_mat)
    /\ outcome.kind = "bundle" => ZeroEntries(outcome.trans_mat)

\* C6, its case: a bundle is returned with a matrix whose other entries are
\* not zero.
C6_MatrixReturned ==
    /\ outcome.kind = "bundle"
    /\ \A r \in 1..3 : outcome.trans_mat[r][r] # 0
    /\ outcome.trans_mat[1][2] # 0 /\ outcome.trans_mat[1][3] # 0
    /\ outcome.trans_mat[2][1] # 0

\* C7: after any calls and any writes of the caller into the tables it was
\* returned, VisualData is as it was loaded, and every returned table is a
\* copy that shares no storage with it.
C7_DatasetUnchanged ==
    /\ VisualData = LoadVisualData(dataset)
    /\ outcome.kind = "table" => outcome.ref.alias = ""
    /\ outcome.kind = "bundle" => \A k \in Copies : outcome.plots[k].alias = ""

\* C7, its case: compute_tabulated has returned, and the caller has since
\* written into a table that a call returned.
C7_CallerHasWritten == outcome.kind = "written" /\ memo.set

\* C8: a call of compute_tabulated with the arguments of an earlier call
\* returns what the earlier call returned, whatever calls and writes came
\* between them.
C8_SameArgumentsSameBundle ==
    [][ (pc = "while" /\ ok /\ memo.set /\ args = memo.args)
            => outcome' = memo.outcome ]_vars

\* C8, its case: a second call with the arguments of the first, which
\* returned a bundle, has come to its return.
C8_RepeatedCallReturns ==
    pc = "while" /\ ok /\ memo.set /\ args = memo.args /\ memo.outcome.kind = "bundle"

\* Position k of the hull's edge list is the first where |i - j| is greatest.
Selected(hull, k) ==
    /\ \A n \in 1..Len(hull) :
          IAbs(hull[n][1] - hull[n][2]) <= IAbs(hull[k][1] - hull[k][2])
    /\ \A n \in 1..(k - 1) :
          IAbs(hull[n][1] - hull[n][2]) < IAbs(hull[k][1] - hull[k][2])

\* pl is the purple line of the cloud t (coordinates in columns c1 and c2),
\* its coordinates rounded to n decimal places.
IsPurpleLineOf(pl, t, c1, c2, n, hull) ==
    \E k \in 1..Len(hull) :
        /\ Selected(hull, k)
        /\ \A e \in 1..2 :
              pl[e] = << t[hull[k][e]][1],
                         my_round(t[hull[k][e]][c1 + 1], n),
                         my_round(t[hull[k][e]][c2 + 1], n) >>

PointsOf(t, c1, c2) == AsArray([i \in 1..Len(t) |-> <<t[i][c1 + 1], t[i][c2 + 1]>>])

Line(pl, t, c1, c2, n, listing) ==
    IsPurpleLineOf(pl, t, c1, c2, n, convex_hull(PointsOf(t, c1, c2), listing))

\* Every purple line of the bundle b is the selected hull edge of its cloud.
PurpleLinesOf(b, a, listing) ==
    /\ Line(b.purple_line_cc, b.plots.cc, 1, 2, a.cc_dp, listing)
    /\ Line(b.purple_line_bm, b.plots.bm, 1, 3, a.bm_dp, listing)
    /\ Line(b.purple_line_lm, b.plots.lm, 1, 2, a.lm_dp, listing)
    /\ Line(b.plots.purple_line_cc31, b.plots.cc31, 1, 2, FloatDp, listing)
    /\ Line(b.plots.purple_line_cc64, b.plots.cc64, 1, 2, FloatDp, listing)

\* C9: for each of cc, bm, lm, cc31 and cc64 the purple line is the hull edge
\* (i, j) of the diagram's cloud with the greatest |i - j|, the first such in
\* the hull's edge list, and its two rows carry the wavelengths and the
\* coordinates of the points i and j, in that order.
C9_PurpleLineIsSelectedEdge ==
    (memo.set /\ memo.outcome.kind = "bundle")
        => PurpleLinesOf(memo.outcome, memo.args, qhull)

SameEndpoints(p, q) == {p[1], p[2]} = {q[1], q[2]}

\* C10: for every permutation of the rows of a cloud the analysis returns the
\* same two wavelength-labelled endpoints as for the original order.
C10_OrderInvariant ==
    (original # <<>> /\ reordered # <<>>) => SameEndpoints(reordered, original)

\* Two rows of the cloud t lie at the two ends of an edge of its hull (of
\* rows at the same point either may be the one returned).
HullEdgeOf(pl, t) ==
    /\ \A r \in 1..2 : \E i \in 1..Len(t) : pl[r] = t[i]
    /\ \E e \in HullEdges(PointsOf(t, 1, 2)) :
          {<<pl[1][2], pl[1][3]>>, <<pl[2][2], pl[2][3]>>}
              = {<<t[i][2], t[i][3]>> : i \in e}

\* C10, amended: for every permutation of the rows the analysis returns the
\* two ends of an edge of the hull of the same cloud, namely the edge its rule
\* selects in the order analysed; which edge that is depends on the order.
C10_ReorderedIsHullEdge ==
    reordered # <<>> =>
        /\ HullEdgeOf(reordered, cloud)
        /\ Line(reordered, Permute(cloud, order), 1, 2, FloatDp, qhull)

\* C10, its case: a reordered copy of a cloud has been analysed and its purple
\* line is another edge than that of the cloud as given.
C10_ReorderedDiffers ==
    original # <<>> /\ reordered # <<>> /\ ~SameEndpoints(reordered, original)

\* C11: the purple line reported for the cc diagram is determined by the cc
\* cloud alone: two runs with the same cc cloud report the same two rows,
\* whatever their bm clouds are.
C11_PurpleLineOfOwnCloud == Cardinality(reports) <= 1

\* The coefficient of ocular as the two formulas give it.
Coefficient(age) ==
    IF age < 60 THEN Unit + (2 * (age - 32) * Unit) \div 100
    ELSE 156 + (7 * (age - 60) * Unit) \div 100

\* C18: the coefficient of the first ocular component is 1 + 0.02*(age - 32)
\* below 60 and 1.56 + 0.0667*(age - 60) from 60 on, and at 60 it differs from
\* what the formula for the ages below 60 tends to.
C18_CoefficientJumpsAt60 ==
    call.f = "ocular" =>
        /\ value = Coefficient(call.age)
        /\ call.age = 60 => value # ocular_below_60(60)

\* C18, amended: the coefficient is given by the two formulas, and at 60 both
\* give 1.56: the coefficient is continuous there, and it is its slope that
\* changes.
C18_CoefficientContinuousAt60 ==
    call.f = "ocular" =>
        /\ value = Coefficient(call.age)
        /\ call.age = 60 => (value = ocular_below_60(60) /\ value = 156)
        /\ call.age > 60 =>
              value - 156 > ocular_below_60(call.age) - ocular_below_60(60)

\* C18, its case: ocular is called with the age 60.
C18_CalledAt60 == call.f = "ocular" /\ call.age = 60

\* The float nearest to the multiple of 10^-n nearest to x, a tie away from
\* zero.
NearestMultiple(x, n) ==
    ISign(x) * Nearest(((2 * IAbs(x) * Pow10(n) + One) \div (2 * One)) * One, Pow10(n))

\* C19: my_round(x, n) is the multiple of 10^-n nearest to x, an exact tie
\* going away from zero for both signs.
C19_RoundsToNearest ==
    call.f = "my_round" => value = NearestMultiple(call.x, call.n)

\* v is x rounded to n significant figures: a multiple of the place of the
\* n-th figure of x, no further from x than half that place.
IsRoundedTo(v, x, n) ==
    LET d == DigitsOf(IAbs(x), 0)
        q == IF d > n THEN Pow10(d - n) ELSE 1
    IN  IsFinite(v) /\ v % q = 0 /\ 2 * IAbs(v - x) <= q

\* C20: significant_figures(x, n) is x rounded to n significant figures, for
\* a scalar and for an array element: 0 gives 0, a negative x gives the
\* negative of the result for -x, and a power of ten is returned unchanged.
C20_RoundsToFigures ==
    call.f = "significant_figures" =>
        /\ call.x = 0 => value = 0
        /\ call.x # 0 => IsRoundedTo(value, call.x, call.n)
        /\ call.x < 0 => value = Neg(significant_figures(-call.x, call.n))
        /\ call.x \in {1, 10, 100} => value = call.x

\* Twice the tolerance 1.5 * 10^-dp, in the units the values are held in; a
\* precision finer than the values themselves leaves the error of the three
\* divisions, half a unit each.
TwiceTolerance(dp) == IF dp >= FloatDp THEN 3 ELSE 3 * Pow10(FloatDp - dp)

\* The three values sum to 1 within the tolerance of the precision dp.
SumsToOne(x, y, z, dp) ==
    LET sum == Add(Add(x, y), z)
    IN  IsFinite(sum) /\ 2 * IAbs(sum - Unit) <= TwiceTolerance(dp)

RowsSumToOne(t, dp) ==
    \A i \in 1..Len(t) : SumsToOne(t[i][2], t[i][3], t[i][4], dp)

\* C12: in every returned bundle the three coordinates of every row of cc and
\* of lm, and those of cc_white and lm_white, sum to 1 within 1.5 * 10^-cc_dp
\* and 1.5 * 10^-lm_dp.
C12_ChromaticitiesSumToOne ==
    (memo.set /\ memo.outcome.kind = "bundle") =>
        LET b == memo.outcome
            a == memo.args
        IN  /\ RowsSumToOne(b.cc, a.cc_dp)
            /\ RowsSumToOne(b.lm, a.lm_dp)
            /\ SumsToOne(b.cc_white[1], b.cc_white[2], b.cc_white[3], a.cc_dp)
            /\ SumsToOne(b.lm_white[1], b.lm_white[2], b.lm_white[3], a.lm_dp)

\* C12, its case: a bundle was returned whose cc and lm tables are rounded to
\* a precision coarser than the values.
C12_CoarseBundleReturned ==
    /\ memo.set /\ memo.outcome.kind = "bundle"
    /\ memo.args.cc_dp < FloatDp /\ memo.args.lm_dp < FloatDp
    /\ \E i \in 1..Len(memo.outcome.cc) : memo.outcome.cc[i][2] # 0

BmRow(row, lms, m, v, dp) ==
    LET lm == Div(Add(Mul(m[2][1], lms[2]), Mul(m[2][2], lms[3])), v)
        q == IF dp >= FloatDp THEN 0 ELSE Pow10(FloatDp - dp)
    IN  IsFinite(lm) =>
            /\ IsFinite(row[2]) /\ IsFinite(row[3])
            /\ 2 * IAbs(row[2] + row[3] - lm) <= 2 * q + 3

Literature(vd, field_size) ==
    IF field_size = 2 THEN vd.lms2_lin_energ ELSE vd.lms10_lin_energ

Reference(a) == a.age = 32 /\ a.field_size \in {2, 10}

\* The rows of the table t at the wavelengths of the rows of lms are those
\* rows.
AtRowsOf(lms, t) ==
    \A i \in 1..Len(lms) :
        \A k \in 1..Len(t) : t[k][1] = lms[i][1] => lms[i] = t[k]

LiteratureWeights(field_size) == IF field_size = 2 THEN <<69, 35>> ELSE <<69, 35>>

\* C15: at age 32 and field size 2 or 10 v_lambda_energy_from_lms returns the
\* literature weights whatever v_lambda_signfig and mat_dp are, and the second
\* row of the matrix compute_tabulated returns is (a21, a22, 0) with these
\* values whatever the precision options are.
C15_LiteratureWeights ==
    /\ (outcome.kind = "table" /\ outcome.of = "v_lambda_energy_from_lms"
            /\ Reference(outcome.args)) =>
          outcome.second = LiteratureWeights(outcome.args.field_size)
    /\ (memo.set /\ memo.outcome.kind = "bundle" /\ Reference(memo.args)) =>
          memo.outcome.trans_mat[2] = LiteratureWeights(memo.args.field_size) \o <<0>>

\* C15, its case: compute_tabulated has returned a bundle for a reference
\* condition with a mat_dp that is coarser than the weights, and
\* v_lambda_energy_from_lms has then been called with such a mat_dp.
C15_CoarseReferenceCalled ==
    /\ memo.set /\ memo.outcome.kind = "bundle" /\ Reference(memo.args)
    /\ memo.args.mat_dp < FloatDp
    /\ outcome.kind = "table" /\ outcome.of = "v_lambda_energy_from_lms"
    /\ Reference(outcome.args) /\ outcome.args.mat_dp < FloatDp

Peak(t, c) == MaxSeq(Col(t, c))

\* a21*L + a22*M on the table of lms_energy_base, the weights those returned
\* by v_lambda_energy_from_lms: the sum before it is rounded to
\* v_lambda_signfig significant figures.
WeightedSum(vd, a, weights) ==
    LET Sum(lms) ==
            AsArray([i \in 1..Len(lms) |->
                Add(Mul(weights[1], lms[i][2]), Mul(weights[2], lms[i][3]))])
        Of(b) == Sum(Deref(b.vd, b.out))
    IN  Of(lms_energy_base(vd, a.field_size, a.age))

\* The channels that are normalised by their maximum have the maximum 1.
NormalisedPeaks(o, vd) ==
    /\ o.of = "lms_quantal" =>
          \A c \in 1..3 : Peak(Deref(vd, o.ref), c) = Unit
    /\ (o.of = "lms_energy_base" /\ ~Reference(o.args)) =>
          \A c \in 1..3 : Peak(Deref(vd, o.ref), c) = Unit
    /\ o.of = "v_lambda_quantal" => Peak(Deref(vd, o.ref), 1) = Unit
    /\ (o.of = "v_lambda_energy_from_quantal" /\ ~Reference(o.args)) =>
          Peak(Deref(vd, o.ref), 1) = Unit

\* C16: every synthesised channel has the maximum 1 before its final
\* rounding: L, M, S of lms_quantal and of the synthesis of lms_energy_base, V
\* of v_lambda_quantal and v_lambda_energy_from_quantal, and the weighted sum
\* a21*L + a22*M of v_lambda_energy_from_lms.
C16_PeaksExactlyOne ==
    outcome.kind = "table" =>
        /\ NormalisedPeaks(outcome, VisualData)
        /\ (outcome.of = "v_lambda_energy_from_lms" /\ ~Reference(outcome.args)) =>
              MaxSeq(WeightedSum(VisualData, outcome.args, outcome.second)) = Unit

\* 10^-mat_dp in the units the values are held in (one unit when mat_dp is
\* finer than the values).
WeightTolerance(dp) == IF dp >= FloatDp THEN 1 ELSE Pow10(FloatDp - dp)

\* C16, amended: the channels that are divided by their maximum have the
\* maximum 1; the weighted sum of v_lambda_energy_from_lms, whose weights are
\* rounded to mat_dp, has a maximum within 10^-mat_dp of 1.
C16_PeaksWithinWeightRounding ==
    outcome.kind = "table" =>
        /\ NormalisedPeaks(outcome, VisualData)
        /\ (outcome.of = "v_lambda_energy_from_lms" /\ ~Reference(outcome.args)) =>
              \E max \in {MaxSeq(WeightedSum(VisualData, outcome.args, outcome.second))} :
                  /\ IsFinite(max)
                  /\ IAbs(max - Unit) <= WeightTolerance(outcome.args.mat_dp)

\* C16, its case: v_lambda_energy_from_lms has synthesised V with weights
\* whose rounding to mat_dp moved the maximum of the weighted sum off 1.
C16_WeightedSumOffOne ==
    /\ outcome.kind = "table" /\ outcome.of = "v_lambda_energy_from_lms"
    /\ ~Reference(outcome.args)
    /\ MaxSeq(WeightedSum(VisualData, outcome.args, outcome.second)) # Unit

\* The locus of the standard the field size names: 1931 for 2 degrees,
\* 1964 for 10 degrees.
Legacy(vd, field_size) == IF field_size = 2 THEN vd.cc31 ELSE vd.cc64

\* The table has the wavelengths of the legacy locus and its columns cs.
SameColumns(t, legacy, cs) ==
    /\ Len(t) = Len(legacy)
    /\ \A i \in 1..Len(t) :
          /\ t[i][1] = legacy[i][1]
          /\ \A c \in cs : t[i][c + 1] = legacy[i][c + 1]

C21_LandmarkFollowsMinimum ==
    /\ [](pc = "while" => lambda_ref_min \in LambdaStart..LambdaEnd)
    /\ [](outcome.kind = "bundle" => outcome.lambda_ref_min \in LambdaStart..LambdaEnd)
    /\ [][ (pc = "resample" /\ pc' = "while") => lambda_ref_min' = 500 ]_vars
    /\ [][ (pc = "while" /\ ~ok /\ pc' = "while" /\ ~ok') =>
              /\ trans_mat' = TransMat(fmin(fr, lambda_ref_min), fr, lambda_ref_min)
              /\ LeastAt(ModelledX(trans_mat', fr), lambda_ref_min')
              /\ lambda_ref_min' # lambda_ref_min ]_vars

\* C21, its case: a turn of the loop has not converged and has moved the
\* landmark off 500 nm.
C21_LandmarkMoved ==
    pc = "while" /\ ~ok /\ visited # {} /\ lambda_ref_min # 500

\* The second and third rows of the matrix m are the weights and the ratio of
\* the frame f.
CarriesWeights(m, f) ==
    /\ m[2] = <<f.a21, f.a22, 0>>
    /\ m[3] = <<0, 0, f.a33>>

\* a21, a22 and a33 of the frame f as lines 788-819 compute them for the
\* arguments a.
ComputedBeforeLoop(vd, a, f) ==
    /\ <<f.a21, f.a22>> =
          v_lambda_energy_from_lms(vd, a.field_size, a.age,
                                   a.xyz_signfig, a.mat_dp).weights
    /\ f.a33 = my_round(Div(SumSeq(SplineAt(f.v_lambda, 1, f.lambdas)),
                            SumSeq(SplineAt(f.lms, 3, f.lambdas))), a.mat_dp)
    /\ f.lambdas = Lambdas(a.resolution)

\* C22: a21, a22, a33, the resampled L, M, S and V and the reference locus
\* are computed before the solver loop and every turn of the loop leaves them
\* (and the dataset and the arguments) as they are; the matrix of every turn
\* and the matrix returned carry that a21, a22 and a33.
C22_LoopKeepsWeights ==
    /\ [](pc = "while" => ComputedBeforeLoop(VisualData, args, fr))
    /\ [][ (pc = "while" /\ pc' = "while") =>
              /\ fr' = fr /\ VisualData' = VisualData /\ args' = args
              /\ CarriesWeights(trans_mat', fr) ]_vars
    /\ [][ (pc = "while" /\ ok /\ outcome'.kind = "bundle") =>
              CarriesWeights(outcome'.trans_mat, fr) ]_vars

\* C22, its case: the loop has gone round at least twice and has converged.
C22_ConvergedAfterTurns ==
    pc = "while" /\ ok /\ Cardinality(visited) >= 2

\* At every wavelength that is a row of both tables, the values of the main
\* table are those of the plotting table rounded to dp decimal places.
MirrorsRounded(main, plot, dp) ==
    \A i \in 1..Len(main) : \A j \in 1..Len(plot) :
        main[i][1] = plot[j][1] =>
            \A c \in 2..4 : main[i][c] = my_round(plot[j][c], dp)

\* At every wavelength that is a row of both tables, the two have the same
\* values.
MirrorsEqual(main, plot) ==
    \A i \in 1..Len(main) : \A j \in 1..Len(plot) :
        main[i][1] = plot[j][1] => main[i] = plot[j]

\* C23: in a returned bundle, at every wavelength that is a row of the main
\* grid and of the full-resolution grid, plots['xyz'] has the values of xyz,
\* and plots['cc'], plots['bm'] and plots['lm'] have the values of cc, bm
\* and lm before their rounding to cc_dp, bm_dp and lm_dp.
C23_PlotsMirrorTables ==
    [][ (pc = "while" /\ ok /\ outcome'.kind = "bundle") =>
           /\ MirrorsEqual(outcome'.xyz, outcome'.plots.xyz)
           /\ MirrorsRounded(outcome'.cc, outcome'.plots.cc, args.cc_dp)
           /\ MirrorsRounded(outcome'.bm, outcome'.plots.bm, args.bm_dp)
           /\ MirrorsRounded(outcome'.lm, outcome'.plots.lm, args.lm_dp) ]_vars

\* C24: every turn of the loop minimises from the initial guess 0.39 and
\* takes from earlier turns the landmark alone, so the turn's results are
\* those of square_sum at that minimum for the landmark; and once a landmark
\* has come back without convergence, the next state is again inside the
\* loop, unconverged, at a landmark already solved for: the loop goes round
\* the same landmarks and the call does not return.
C24_RepeatedLandmarkCycles ==
    /\ [][ (pc = "while" /\ ~ok /\ pc' = "while" /\ visited' # {}) =>
              \E r \in {square_sum(FminFrom(39, fr, lambda_ref_min, 1),
                                   fr, lambda_ref_min)} :
                  /\ lambda_ref_min' = r.lambda_test_min
                  /\ ok' = r.ok
                  /\ trans_mat' = r.trans_mat
                  /\ err' = r.err ]_vars
    /\ [][ (pc = "while" /\ ~ok /\ lambda_ref_min \in visited) =>
              /\ pc' = "while" /\ ~ok'
              /\ lambda_ref_min' \in visited
              /\ visited' = visited
              /\ outcome' = outcome ]_vars

\* C24, its case: the loop has gone round a cycle of at least two landmarks
\* and is back, unconverged, at one of them.
C24_BackAtLandmark ==
    /\ pc = "while" /\ ~ok
    /\ lambda_ref_min \in visited
    /\ Cardinality(visited) >= 2

\* The wavelength column of the table t starts at 390, goes up in steps of
\* resolution and ends at or before 830.
WavelengthsWithin(t, resolution) ==
    /\ Len(t) >= 1
    /\ t[1][1] = 390
    /\ \A i \in 1..(Len(t) - 1) : t[i + 1][1] - t[i][1] = resolution
    /\ \A i \in 1..Len(t) : t[i][1] <= 830

\* C25: for every resolution > 0, the wavelength column of each of the
\* returned xyz, cc, lms_standard, lms, bm and lm starts at 390, increases in
\* steps of resolution and has no wavelength greater than 830.
C25_WavelengthsWithinDomain ==
    [][ (pc = "while" /\ ok /\ outcome'.kind = "bundle" /\ args.resolution > 0) =>
           \A t \in {outcome'.xyz, outcome'.cc, outcome'.lms_standard,
                     outcome'.lms, outcome'.bm, outcome'.lm} :
               WavelengthsWithin(t, args.resolution) ]_vars

\* 1/3 rounded to dp decimal places; where dp is finer than the values are
\* held, 1/3 to within one unit of the arithmetic.
IsThird(x, dp) ==
    IF dp < FloatDp THEN x = my_round(Div(Unit, 3 * Unit), dp)
    ELSE IsFinite(x) /\ IAbs(x - Div(Unit, 3 * Unit)) <= 1

\* C26: whatever the field size, the age and the resolution, the returned
\* lm_white is (1/3, 1/3, 1/3) rounded to lm_dp decimal places.
C26_LmWhiteIsThirds ==
    [][ (pc = "while" /\ ok /\ outcome'.kind = "bundle") =>
           \A c \in 1..3 : IsThird(outcome'.lm_white[c], args.lm_dp) ]_vars

\* C26, its case: a call has returned the lm_white of the first call that
\* returned, with a cc_white and a bm_white that are not those of that call.
C26_OtherWhitesVary ==
    /\ outcome.kind = "bundle" /\ memo.set
    /\ memo.outcome.kind = "bundle"
    /\ outcome.lm_white = memo.outcome.lm_white
    /\ outcome.cc_white # memo.outcome.cc_white
    /\ outcome.bm_white # memo.outcome.bm_white

=============================================================================
